---- MODULE Spec2Model ----
(***************************************************************************)
(* gulp-eslint-new: the result pipeline of the plugin.                     *)
(*                                                                         *)
(*   - SpecStream   a stage built by createTransform (src/util.js) fed by  *)
(*                  an upstream that writes files and then ends; the       *)
(*                  stage is a generic one, results, failOnError or        *)
(*                  failAfterError.                                        *)
(*   - SpecFilter   filterResult over a heap of result objects.            *)
(*   - SpecMigrate  migrateOptions over ordered option objects.            *)
(*   - SpecBooleanMap  migrateOptions over envs and globals lists.         *)
(*   - SpecIgnore   createIgnoreResult over file paths and base            *)
(*                  directories.                                           *)
(*   - SpecFormat   writeResults called on a formatter resolved by         *)
(*                  resolveFormatter.                                      *)
(*                                                                         *)
(* The stage runs on a Node.js object-mode Transform with the default      *)
(* autoDestroy: one _transform at a time, the write callback releases the  *)
(* next buffered chunk, an error passed to a callback destroys the stream  *)
(* and discards what is still buffered, and final runs after end() once    *)
(* all writes have drained.                                                *)
(***************************************************************************)
EXTENDS Integers, Sequences, FiniteSets, TLC

VARIABLES
    \* ---- stream stage ----
    stage,      \* which stage this is: "generic", "results", "failOnError", "failAfterError"
    hasFinal,   \* whether handleFinal was given to createTransform
    source,     \* files upstream has still to write
    written,    \* files upstream has written so far (history)
    buffer,     \* written files waiting in the writable side
    inflight,   \* files whose handler has been invoked and has not settled
    ended,      \* upstream has called end()
    finalState, \* handleFinal: "none", "running", "resolved", "rejected"
    destroyed,  \* the stream has been destroyed by an error
    finished,   \* the stage has signalled normal completion
    forwarded,  \* files pushed downstream, in order
    emitted,    \* errors emitted by the stage, in order
    results,    \* the result collection of a results() stage
    thrown,     \* what the handlers threw or rejected with, in order
    handed,     \* the collections handleFinal was invoked on, as they were then
    log,        \* history of the stage's events, in order
    \* ---- filterResult ----
    objs,       \* heap of result objects: id -> record
    arrs,       \* heap of message arrays: id -> sequence of messages
    calls,      \* history of filterResult calls
    \* ---- migrateOptions ----
    options,    \* the argument handed to migrateOptions
    migrated,   \* what the call produced: not called, returned or threw
    caller,     \* the caller's options object and its overrideConfig, as they are now
    \* ---- createIgnoreResult ----
    ignoreArgs,   \* the arguments: filePath, baseDir and the platform's separator
    ignoreResult, \* what the call returned, or that it was not called yet
    \* ---- resolveFormatter and writeResults ----
    formatterRef, \* the formatter given: "function", "object" or "name"
    writerRef,    \* whether a writer was given to writeResults
    toFormat,     \* the result lists writeResults is still to be called on
    calling,      \* where the current writeResults call stands
    current,      \* the result list of the current call, as it is now
    rulesMeta,    \* the rulesMeta property of the current call's context
    output,       \* what the formatter returned in the current call
    trace         \* history of the calls made, in order

streamVars  == <<stage, hasFinal, source, written, buffer, inflight, ended,
                 finalState, destroyed, finished, forwarded, emitted, results,
                 thrown, handed, log>>
filterVars  == <<objs, arrs, calls>>
migrateVars == <<options, migrated, caller>>
ignoreVars  == <<ignoreArgs, ignoreResult>>
formatVars  == <<formatterRef, writerRef, toFormat, calling, current, rulesMeta,
                 output, trace>>
utilVars    == <<ignoreVars, formatVars>>
vars == <<streamVars, filterVars, migrateVars, utilVars>>

-----------------------------------------------------------------------------
(* Bounds of the model.                                                    *)
MaxFiles == 3
MaxMessages == 3
MaxOptions == 3
MaxEntries == 3
MaxDepth == 3
MaxResults == 3
MaxReads == 2

-----------------------------------------------------------------------------
(* Lint results and files (Vinyl files carrying an optional eslint slot).  *)

NoResult == [present |-> FALSE, errorCount |-> 0, warningCount |-> 0,
             fixableErrorCount |-> 0, fixableWarningCount |-> 0, fatalErrorCount |-> 0]

CleanResult == [present |-> TRUE, errorCount |-> 0, warningCount |-> 1,
                fixableErrorCount |-> 0, fixableWarningCount |-> 1, fatalErrorCount |-> 0]

OneError == [present |-> TRUE, errorCount |-> 1, warningCount |-> 0,
             fixableErrorCount |-> 1, fixableWarningCount |-> 0, fatalErrorCount |-> 0]

TwoErrors == [present |-> TRUE, errorCount |-> 2, warningCount |-> 1,
              fixableErrorCount |-> 0, fixableWarningCount |-> 0, fatalErrorCount |-> 1]

FileResults == {NoResult, CleanResult, OneError, TwoErrors}

NoFile == [id |-> 0, eslint |-> NoResult]

\* The files upstream may write: file i is the i-th written.
FileSeqs(kinds) ==
    UNION { { s \in [1..n -> [id : 1..n, eslint : kinds]] :
                \A i \in 1..n : s[i].id = i } : n \in 0..MaxFiles }

-----------------------------------------------------------------------------
(* Errors.                                                                 *)

\* An error is an object: ref tells one object from another.  The kind "null"
\* stands for null and undefined, which error == null does not tell apart.
NoError == [kind |-> "none", message |-> "", plugin |-> "", showStack |-> FALSE, ref |-> 0]

\* What a handler may throw or reject with.
Thrown ==
    { [kind |-> "null",        message |-> "",       plugin |-> "", showStack |-> FALSE,
       ref |-> 1],
      [kind |-> "Error",       message |-> "boom",   plugin |-> "", showStack |-> FALSE,
       ref |-> 2],
      [kind |-> "PluginError", message |-> "tagged", plugin |-> "other-plugin",
       showStack |-> FALSE, ref |-> 3] }

\* new PluginError('gulp-eslint-new', error, { showStack: true }): a new object,
\* told from the one it wraps by its ref.
newPluginError(error) ==
    [kind      |-> "PluginError",
     message   |-> error.message,
     plugin    |-> "gulp-eslint-new",
     showStack |-> TRUE,
     ref       |-> error.ref + 10]

\* createPluginError wrapping whatever it is given, tagged or not.
createPluginErrorAlwaysWraps(error) ==
    newPluginError(IF error.kind = "null"
                   THEN [error EXCEPT !.message = "Unknown Error"] ELSE error)

createPluginError(error) ==
    IF error.kind = "PluginError" THEN error
    ELSE newPluginError(IF error.kind = "null"
                        THEN [error EXCEPT !.message = "Unknown Error"] ELSE error)

-----------------------------------------------------------------------------
(* The stream stage: createTransform and awaitHandler.                     *)

Ev(e, id) == [ev |-> e, id |-> id]

Resolves == [ok |-> TRUE, err |-> NoError]
Rejects(e) == [ok |-> FALSE, err |-> e]

\* awaitHandler without the return of its catch block: done(error), then done(null, data).
awaitHandlerNoReturn(ok, err, data) ==
    IF ok
    THEN [error |-> NoError, pass |-> TRUE, data |-> data]
    ELSE [error |-> createPluginError(err), pass |-> TRUE, data |-> data]

\* awaitHandler with a catch block that swallows the failure.
awaitHandlerSwallow(ok, err, data) ==
    [error |-> NoError, pass |-> TRUE, data |-> data]

\* The calls awaitHandler makes to done: done(error) or done(null, data).
awaitHandler(ok, err, data) ==
    IF ok
    THEN [error |-> NoError, pass |-> TRUE, data |-> data]
    ELSE [error |-> createPluginError(err), pass |-> FALSE, data |-> NoFile]

\* transform handing awaitHandler no data: a handled file is passed on as null.
transformNoData(file, ok, err) == awaitHandler(ok, err, NoFile)

\* transform = (file, enc, done) => void awaitHandler(() => handleFile(file), file, done)
transform(file, ok, err) == awaitHandler(ok, err, file)

\* final calling done without awaiting handleFinal.
finalNoAwait(ok, err) == [error |-> NoError, pass |-> TRUE, data |-> NoFile]

\* final = done => void awaitHandler(handleFinal, null, done)
final(ok, err) == awaitHandler(ok, err, NoFile)

\* transform calling done at once, before the handler settles.
writingNever(handlers) == FALSE

\* The writable side is busy from the call of transform until its done is called.
writing(handlers) == handlers # <<>>

\* final called as soon as end() is called, with writes still pending.
drainedAlways(handlers, buffered) == TRUE

\* Node calls final (or finishes) once end() was called and all writes have drained.
drained(handlers, buffered) == ~writing(handlers) /\ buffered = <<>>

EmptyResults == [list |-> <<>>, errorCount |-> 0, warningCount |-> 0,
                 fixableErrorCount |-> 0, fixableWarningCount |-> 0,
                 fatalErrorCount |-> 0]

\* The per-file handler of results(action): a file with a result is appended and
\* its counts are added; a file without one contributes nothing.
collect(coll, file) ==
    IF file.eslint.present
    THEN [list                |-> Append(coll.list, file.eslint),
          errorCount          |-> coll.errorCount + file.eslint.errorCount,
          warningCount        |-> coll.warningCount + file.eslint.warningCount,
          fixableErrorCount   |-> coll.fixableErrorCount + file.eslint.fixableErrorCount,
          fixableWarningCount |-> coll.fixableWarningCount + file.eslint.fixableWarningCount,
          fatalErrorCount     |-> coll.fatalErrorCount + file.eslint.fatalErrorCount]
    ELSE coll

GateFailure == [kind |-> "PluginError", message |-> "ESLintError",
                plugin |-> "gulp-eslint-new", showStack |-> FALSE, ref |-> 4]

\* What handleFile does to the stage's own state when it is invoked.
handleFile(st, coll, file) ==
    IF st \in {"results", "failAfterError"} THEN collect(coll, file) ELSE coll

\* How the handler started for a file may settle.
handleFileOutcomes(st, file) ==
    IF st = "failOnError"
    THEN IF file.eslint.present /\ file.eslint.errorCount > 0
         THEN {Rejects(GateFailure)} ELSE {Resolves}
    ELSE IF st \in {"results", "failAfterError"}
    THEN {Resolves}
    ELSE {Resolves} \cup {Rejects(e) : e \in Thrown}

\* How handleFinal may settle.
handleFinalOutcomes(st, coll) ==
    IF st = "failAfterError"
    THEN IF coll.errorCount > 0 THEN {Rejects(GateFailure)} ELSE {Resolves}
    ELSE {Resolves} \cup {Rejects(e) : e \in Thrown}

RemoveAt(s, i) == SubSeq(s, 1, i - 1) \o SubSeq(s, i + 1, Len(s))

\* An absolute path: the platform's separator and the segments below the root.
RootPath == [sep |-> "/", segments |-> <<>>]

IgnoreIdle ==
    /\ ignoreArgs = [filePath |-> RootPath, baseDir |-> RootPath]
    /\ ignoreResult = [called |-> FALSE]

NoContext == [cached |-> FALSE, value |-> 0, calls |-> 0]

FormatIdle ==
    /\ formatterRef = "name"
    /\ writerRef = FALSE
    /\ toFormat = <<>>
    /\ calling = "idle"
    /\ current = <<>>
    /\ rulesMeta = NoContext
    /\ output = [t |-> "undefined"]
    /\ trace = <<>>

UtilIdle == IgnoreIdle /\ FormatIdle

FilterIdle ==
    /\ objs = <<>>
    /\ arrs = <<>>
    /\ calls = <<>>

MigrateIdle ==
    /\ options = [t |-> "undefined"]
    /\ migrated = [status |-> "idle"]
    /\ caller = [options |-> [t |-> "undefined"], overrideConfig |-> [t |-> "undefined"]]

StreamInit ==
    /\ stage \in {"generic", "results", "failOnError", "failAfterError"}
    /\ hasFinal \in BOOLEAN
    /\ stage = "failOnError" => ~hasFinal
    /\ stage \in {"results", "failAfterError"} => hasFinal
    \* a generic handler settles either way whatever the file carries
    /\ source \in FileSeqs(IF stage = "generic" THEN {NoResult, OneError} ELSE FileResults)
    /\ written = <<>>
    /\ buffer = <<>>
    /\ inflight = <<>>
    /\ ended = FALSE
    /\ finalState = "none"
    /\ destroyed = FALSE
    /\ finished = FALSE
    /\ forwarded = <<>>
    /\ emitted = <<>>
    /\ results = EmptyResults
    /\ thrown = <<>>
    /\ handed = <<>>
    /\ log = <<>>
    /\ FilterIdle
    /\ MigrateIdle
    /\ UtilIdle

\* Upstream writes its next file: write(file).
Write ==
    /\ source # <<>>
    /\ ~ended
    /\ LET file == Head(source) IN
        /\ source' = Tail(source)
        /\ written' = Append(written, file)
        /\ IF destroyed
           THEN \* a destroyed stream refuses the chunk
                /\ log' = log \o <<Ev("write", file.id), Ev("discard", file.id)>>
                /\ UNCHANGED <<buffer, inflight, results>>
           ELSE IF writing(inflight)
           THEN /\ buffer' = Append(buffer, file)
                /\ log' = Append(log, Ev("write", file.id))
                /\ UNCHANGED <<inflight, results>>
           ELSE /\ inflight' = Append(inflight, file)
                /\ results' = handleFile(stage, results, file)
                /\ log' = log \o <<Ev("write", file.id), Ev("start", file.id)>>
                /\ UNCHANGED buffer
    /\ UNCHANGED <<stage, hasFinal, ended, finalState, destroyed, finished,
                   forwarded, emitted>>
    /\ UNCHANGED <<thrown, handed>>
    /\ UNCHANGED <<filterVars, migrateVars, utilVars>>

\* Upstream calls end() after its last write.
End ==
    /\ source = <<>>
    /\ ~ended
    /\ ended' = TRUE
    /\ log' = Append(log, Ev("end", 0))
    /\ UNCHANGED <<stage, hasFinal, source, written, buffer, inflight, finalState,
                   destroyed, finished, forwarded, emitted, results>>
    /\ UNCHANGED <<thrown, handed>>
    /\ UNCHANGED <<filterVars, migrateVars, utilVars>>

\* The handler of a file settles and awaitHandler calls done.
HandlerSettle ==
    /\ ~destroyed
    /\ \E i \in 1..Len(inflight) : \E o \in handleFileOutcomes(stage, inflight[i]) :
        LET file   == inflight[i]
            d      == transform(file, o.ok, o.err)
            failed == d.error # NoError
            pushed == d.pass /\ d.data # NoFile
            rest   == RemoveAt(inflight, i)
            starts == ~failed /\ buffer # <<>> /\ ~writing(rest)
        IN  /\ forwarded' = IF pushed THEN Append(forwarded, d.data) ELSE forwarded
            /\ emitted' = IF failed THEN Append(emitted, d.error) ELSE emitted
            /\ thrown' = IF o.ok THEN thrown ELSE Append(thrown, o.err)
            /\ destroyed' = failed
            /\ inflight' = IF starts THEN Append(rest, Head(buffer)) ELSE rest
            /\ buffer' = IF failed THEN <<>> ELSE IF starts THEN Tail(buffer) ELSE buffer
            /\ results' = IF starts THEN handleFile(stage, results, Head(buffer))
                          ELSE results
            /\ log' = log
                 \o <<Ev(IF o.ok THEN "resolve" ELSE "reject", file.id)>>
                 \o (IF failed THEN <<Ev("error", file.id)>> ELSE <<>>)
                 \o (IF pushed THEN <<Ev("forward", d.data.id)>> ELSE <<>>)
                 \o (IF failed THEN [k \in 1..Len(buffer) |-> Ev("discard", buffer[k].id)]
                     ELSE <<>>)
                 \o (IF starts THEN <<Ev("start", Head(buffer).id)>> ELSE <<>>)
    /\ UNCHANGED <<stage, hasFinal, source, written, ended, finalState, finished>>
    /\ UNCHANGED <<handed>>
    /\ UNCHANGED <<filterVars, migrateVars, utilVars>>

\* All writes have drained after end(): Node calls final, which invokes handleFinal.
CallFinal ==
    /\ hasFinal
    /\ ended /\ ~destroyed /\ ~finished
    /\ drained(inflight, buffer)
    /\ finalState = "none"
    /\ finalState' = "running"
    /\ handed' = Append(handed, results)
    /\ log' = Append(log, Ev("finalStart", 0))
    /\ UNCHANGED <<stage, hasFinal, source, written, buffer, inflight, ended,
                   destroyed, finished, forwarded, emitted, results>>
    /\ UNCHANGED <<thrown>>
    /\ UNCHANGED <<filterVars, migrateVars, utilVars>>

\* handleFinal settles and awaitHandler calls done.
FinalSettle ==
    /\ finalState = "running"
    /\ \E o \in handleFinalOutcomes(stage, results) :
        LET d      == final(o.ok, o.err)
            failed == d.error # NoError
        IN  /\ finalState' = IF o.ok THEN "resolved" ELSE "rejected"
            /\ emitted' = IF failed THEN Append(emitted, d.error) ELSE emitted
            /\ thrown' = IF o.ok THEN thrown ELSE Append(thrown, o.err)
            /\ destroyed' = failed
            /\ finished' = d.pass
            /\ log' = log
                 \o <<Ev(IF o.ok THEN "finalResolve" ELSE "finalReject", 0)>>
                 \o (IF failed THEN <<Ev("error", 0)>> ELSE <<>>)
                 \o (IF d.pass THEN <<Ev("finish", 0)>> ELSE <<>>)
    /\ UNCHANGED <<stage, hasFinal, source, written, buffer, inflight, ended,
                   forwarded, results>>
    /\ UNCHANGED <<handed>>
    /\ UNCHANGED <<filterVars, migrateVars, utilVars>>

\* A stage without handleFinal completes once all writes have drained after end().
Finish ==
    /\ ~hasFinal
    /\ ended /\ ~destroyed /\ ~finished
    /\ drained(inflight, buffer)
    /\ finished' = TRUE
    /\ log' = Append(log, Ev("finish", 0))
    /\ UNCHANGED <<stage, hasFinal, source, written, buffer, inflight, ended,
                   finalState, destroyed, forwarded, emitted, results>>
    /\ UNCHANGED <<thrown, handed>>
    /\ UNCHANGED <<filterVars, migrateVars, utilVars>>

StreamNext ==
    \/ Write
    \/ End
    \/ HandlerSettle
    \/ CallFinal
    \/ FinalSettle
    \/ Finish

SpecStream == StreamInit /\ [][StreamNext]_vars

-----------------------------------------------------------------------------
(* Properties of the stream stage.                                         *)

Count(e, id) == Cardinality({k \in DOMAIN log : log[k] = Ev(e, id)})

Before(e1, id1, e2, id2) ==
    \E j, k \in DOMAIN log : j < k /\ log[j] = Ev(e1, id1) /\ log[k] = Ev(e2, id2)

Forwards(f) == Cardinality({k \in DOMAIN forwarded : forwarded[k] = f})

ForwardsOfId(i) == Cardinality({k \in DOMAIN forwarded : forwarded[k].id = i})

Settled(i) == Count("resolve", i) + Count("reject", i) = 1

ExactlyOneOutcome(i) ==
    \/ Forwards(written[i]) = 1 /\ ForwardsOfId(i) = 1 /\ Count("error", i) = 0
    \/ ForwardsOfId(i) = 0 /\ Count("error", i) = 1

\* C1 (as stated): every file written to the stage is handled and, once the stage
\* is through with it, has been forwarded unchanged or has produced one
\* PluginError: never both, never neither.
C1_Original ==
    stage = "generic" =>
        \A i \in DOMAIN written :
            (\A k \in DOMAIN buffer : buffer[k].id # i)
            /\ (\A k \in DOMAIN inflight : inflight[k].id # i)
            => Count("start", i) = 1 /\ ExactlyOneOutcome(i)

\* C1 (amended): handleFile is invoked at most once per written file, and for
\* every file it is invoked with exactly one outcome follows its settling: the
\* same file is forwarded unchanged after a resolve, or exactly one PluginError is
\* emitted and the file is not forwarded after a reject; never both, never
\* neither.  The files not handled are exactly those that were still buffered
\* when the stage failed or that were written after it failed.
C1_HandledFileOneOutcome ==
    /\ \A i \in DOMAIN written :
        /\ Count("start", i) <= 1
        /\ Count("resolve", i) + Count("reject", i) <= Count("start", i)
        /\ Count("resolve", i) = 1 =>
              Forwards(written[i]) = 1 /\ ForwardsOfId(i) = 1 /\ Count("error", i) = 0
        /\ Count("reject", i) = 1 =>
              ForwardsOfId(i) = 0 /\ Count("error", i) = 1
        /\ ~Settled(i) => ForwardsOfId(i) = 0 /\ Count("error", i) = 0
        /\ Count("start", i) = 0 =>
              \/ \E k \in DOMAIN buffer : buffer[k] = written[i]
              \/ destroyed /\ Count("discard", i) = 1
    /\ \A k \in DOMAIN emitted : emitted[k].kind = "PluginError"
    /\ \A k \in DOMAIN forwarded :
          forwarded[k].id \in DOMAIN written /\ forwarded[k] = written[forwarded[k].id]
    /\ Len(emitted) = Cardinality({k \in DOMAIN log : log[k].ev = "error"})

\* C1 witness: one file was forwarded, the next one failed with a PluginError that
\* wraps a plain error, and a third, still buffered then, was never handled.
C1_Witness ==
    /\ stage = "generic"
    /\ Len(written) = 3
    /\ forwarded = <<written[1]>>
    /\ Count("reject", 2) = 1
    /\ Len(emitted) = 1
    /\ emitted[1].plugin = "gulp-eslint-new"
    /\ Count("start", 3) = 0
    /\ Before("write", 3, "reject", 2)

\* C2 (as stated): a supplied handleFinal runs exactly once in every stream, so a
\* stream that has terminated (completed or failed) has run it once.
C2_Original ==
    stage = "generic" /\ hasFinal /\ (finished \/ destroyed) => Count("finalStart", 0) = 1

\* C2 (amended): a supplied handleFinal runs at most once per stream, only after
\* end() and after every per-item handler has settled, and before the stage
\* signals completion, which therefore happens only after handleFinal has run
\* once and resolved; it does not run in a stream that a per-item handler has
\* failed.  If handleFinal throws or rejects, the stage emits a PluginError and
\* never signals normal completion.
C2_FinalOnceAfterHandlers ==
    hasFinal =>
        /\ Count("finalStart", 0) <= 1
        /\ Count("finalStart", 0) = (IF finalState = "none" THEN 0 ELSE 1)
        /\ finalState # "none" =>
              /\ ended /\ source = <<>> /\ inflight = <<>> /\ buffer = <<>>
              /\ \A i \in DOMAIN written : Count("resolve", i) = 1
              /\ \A j, k \in DOMAIN log :
                    log[j] = Ev("finalStart", 0) /\ j < k =>
                        log[k].ev \notin {"write", "start", "resolve", "reject", "forward"}
        /\ (\E i \in DOMAIN written : Count("reject", i) = 1) => finalState = "none"
        /\ finished =>
              /\ finalState = "resolved"
              /\ Before("finalStart", 0, "finish", 0)
              /\ Count("finish", 0) = 1
        /\ finalState = "rejected" =>
              /\ ~finished
              /\ Count("finish", 0) = 0
              /\ destroyed
              /\ Len(emitted) = 1
              /\ emitted[1].kind = "PluginError"
              /\ Count("error", 0) = 1

\* C2 witness: handleFinal has run after two handled files and has failed.
C2_Witness ==
    /\ stage = "generic"
    /\ hasFinal
    /\ Len(forwarded) = 2
    /\ finalState = "rejected"
    /\ Len(emitted) = 1

\* C3: files are forwarded in their arrival order whatever the order in which
\* upstream writes and handlers settle interleave, and the handler of a file is
\* not started before the handler of every earlier file has settled.
C3_ArrivalOrder ==
    /\ \A j, k \in DOMAIN forwarded : j < k => forwarded[j].id < forwarded[k].id
    /\ \A a, b \in DOMAIN written :
          a < b /\ Count("start", b) = 1 =>
              \/ Before("resolve", a, "start", b)
              \/ Before("reject", a, "start", b)
    /\ Len(inflight) <= 1

\* C3 witness: three files were all written before the first handler settled, and
\* all three have been forwarded.
C3_Witness ==
    /\ Len(forwarded) = 3
    /\ Before("write", 3, "resolve", 1)
    /\ Before("forward", 1, "start", 2)

FirstFailing(i) ==
    /\ written[i].eslint.present
    /\ written[i].eslint.errorCount > 0
    /\ \A j \in 1..(i - 1) :
          ~(written[j].eslint.present /\ written[j].eslint.errorCount > 0)

\* C4: in a failOnError stage a file whose result has no errors, or that has no
\* result, passes through; the first file whose result has errors makes the stage
\* signal failure and is not forwarded; once failure has been signalled no later
\* file is processed or handed downstream.
C4_FailOnError ==
    stage = "failOnError" =>
        /\ \A i \in DOMAIN written :
              /\ Settled(i) /\ ~(written[i].eslint.present /\ written[i].eslint.errorCount > 0)
                    => Forwards(written[i]) = 1
              /\ Settled(i) /\ FirstFailing(i) =>
                    /\ destroyed
                    /\ Len(emitted) = 1
                    /\ Count("error", i) = 1
                    /\ ForwardsOfId(i) = 0
              /\ (\E j \in 1..(i - 1) : FirstFailing(j)) =>
                    Count("start", i) = 0 /\ ForwardsOfId(i) = 0
        /\ \A j, k \in DOMAIN log :
              log[j].ev = "error" /\ j < k =>
                  log[k].ev \notin {"start", "resolve", "reject", "forward", "error", "finish"}
        /\ Len(emitted) <= 1
        /\ emitted # <<>> => \E i \in DOMAIN written : FirstFailing(i) /\ Count("reject", i) = 1
        /\ destroyed => ~finished

\* C4 witness: a clean file was forwarded, the second file had errors and failed
\* the stage, and a third file, written after the failure, was not processed.
C4_Witness ==
    /\ stage = "failOnError"
    /\ Len(written) = 3
    /\ forwarded = <<written[1]>>
    /\ destroyed
    /\ Before("error", 2, "write", 3)
    /\ Count("start", 3) = 0

RECURSIVE TotalErrors(_)
TotalErrors(files) ==
    IF files = <<>> THEN 0
    ELSE (IF Head(files).eslint.present THEN Head(files).eslint.errorCount ELSE 0)
         + TotalErrors(Tail(files))

\* C5: in a failAfterError stage every file, with errors or not, is forwarded;
\* the stage signals failure only at end-of-stream, after all files have passed,
\* and does so if and only if the error counts of all files seen add up to more
\* than 0; otherwise it completes normally.
C5_FailAfterError ==
    stage = "failAfterError" =>
        /\ \A i \in DOMAIN written :
              /\ Count("reject", i) = 0
              /\ Settled(i) => Forwards(written[i]) = 1
        /\ emitted # <<>> =>
              /\ finalState = "rejected"
              /\ ended /\ source = <<>>
              /\ forwarded = written
              /\ Len(emitted) = 1
        /\ finalState \in {"resolved", "rejected"} =>
              /\ forwarded = written
              /\ (finalState = "rejected") = (TotalErrors(written) > 0)
              /\ (finalState = "rejected") = (emitted # <<>>)
              /\ destroyed = (TotalErrors(written) > 0)
              /\ finished = (TotalErrors(written) = 0)

\* C5 witness: three files, one of them with errors, have all been forwarded and
\* the stage has failed at end-of-stream.
C5_Witness ==
    /\ stage = "failAfterError"
    /\ Len(forwarded) = 3
    /\ forwarded[2].eslint.errorCount > 0
    /\ forwarded[3].eslint.errorCount = 0
    /\ finalState = "rejected"
    /\ Len(emitted) = 1
    /\ ~finished

-----------------------------------------------------------------------------
(* filterResult and the message counts.                                    *)

\* Lint messages: severity, the fix payload and the fatal flag are all the code reads.
Messages ==
    { [severity |-> 1, fix |-> "undefined", fatal |-> "false"],
      [severity |-> 1, fix |-> "object",    fatal |-> "undefined"],
      [severity |-> 1, fix |-> "undefined", fatal |-> "true"],
      [severity |-> 2, fix |-> "undefined", fatal |-> "undefined"],
      [severity |-> 2, fix |-> "object",    fatal |-> "undefined"],
      [severity |-> 2, fix |-> "undefined", fatal |-> "true"],
      [severity |-> 2, fix |-> "object",    fatal |-> "true"] }

MessageLists == UNION { [1..n -> Messages] : n \in 0..MaxMessages }

isErrorMessage(message) == message.severity > 1

isWarningMessage(message) == message.severity = 1

Number(b) == IF b THEN 1 ELSE 0

countErrorMessage(count, message) == count + Number(isErrorMessage(message))

countWarningMessage(count, message) == count + Number(isWarningMessage(message))

countFixableErrorMessage(count, message) ==
    count + Number(isErrorMessage(message) /\ message.fix # "undefined")

countFixableWarningMessage(count, message) ==
    count + Number(isWarningMessage(message) /\ message.fix # "undefined")

\* countFatalErrorMessage without the isErrorMessage test.
countFatalAnySeverity(count, message) == count + Number(message.fatal = "true")

countFatalErrorMessage(count, message) ==
    count + Number(isErrorMessage(message) /\ message.fatal = "true")

\* The reducer callbacks filterResult passes to reduce, called by name.
callReducer(callback, count, message) ==
    CASE callback = "countErrorMessage"          -> countErrorMessage(count, message)
      [] callback = "countWarningMessage"        -> countWarningMessage(count, message)
      [] callback = "countFixableErrorMessage"   -> countFixableErrorMessage(count, message)
      [] callback = "countFixableWarningMessage" -> countFixableWarningMessage(count, message)
      [] callback = "countFatalErrorMessage"     -> countFatalErrorMessage(count, message)

\* Array.prototype.reduce(callback, initialValue)
reduce(list, callback, initialValue) ==
    LET acc[i \in 0..Len(list)] ==
            IF i = 0 THEN initialValue ELSE callReducer(callback, acc[i - 1], list[i])
    IN  acc[Len(list)]

\* The filters a caller may pass; each is called as filter(message, index, list)
\* with the unfiltered result as this.
Filters == {"isError", "isWarning", "hasFix", "oddIndex", "notLast", "thisHasErrors"}

callFilter(f, this, message, index, list) ==
    CASE f = "isError"       -> isErrorMessage(message)
      [] f = "isWarning"     -> isWarningMessage(message)
      [] f = "hasFix"        -> message.fix # "undefined"
      [] f = "oddIndex"      -> index % 2 = 1
      [] f = "notLast"       -> index < Len(list) - 1
      [] f = "thisHasErrors" -> this.errorCount > 0

\* Array.prototype.filter(callback, thisArg): indices run from 0.
RECURSIVE filterFrom(_, _, _, _)
filterFrom(list, f, this, i) ==
    IF i > Len(list) THEN <<>>
    ELSE (IF callFilter(f, this, list[i], i - 1, list) THEN <<list[i]>> ELSE <<>>)
         \o filterFrom(list, f, this, i + 1)

filter(list, f, this) == filterFrom(list, f, this, 1)

\* A result object fresh from the linter: its counts agree with its messages.
lintResult(arr, list) ==
    [filePath            |-> "a.js",
     messages            |-> arr,
     errorCount          |-> reduce(list, "countErrorMessage", 0),
     warningCount        |-> reduce(list, "countWarningMessage", 0),
     fixableErrorCount   |-> reduce(list, "countFixableErrorMessage", 0),
     fixableWarningCount |-> reduce(list, "countFixableWarningMessage", 0),
     fatalErrorCount     |-> reduce(list, "countFatalErrorMessage", 0)]

\* filterResult that takes the counts from the unfiltered messages.
filterResultCountsInput(heap, r, f) ==
    LET result      == heap.objs[r]
        messages    == heap.arrs[result.messages]
        newMessages == filter(messages, f, result)
        arr         == Len(heap.arrs) + 1
    IN  [objs |-> Append(heap.objs, lintResult(arr, messages)),
         arrs |-> Append(heap.arrs, newMessages),
         ret  |-> Len(heap.objs) + 1]

\* filterResult that filters in place: the input object gets the new messages
\* and counts and is returned.
filterResultInPlace(heap, r, f) ==
    LET result      == heap.objs[r]
        messages    == heap.arrs[result.messages]
        newMessages == filter(messages, f, result)
    IN  [objs |-> [heap.objs EXCEPT ![r] = lintResult(result.messages, newMessages)],
         arrs |-> [heap.arrs EXCEPT ![result.messages] = newMessages],
         ret  |-> r]

\* filterResult(result, filter) on the heap: a new result object holding a new
\* message array; the rest properties are copied, messages and counts are set.
filterResult(heap, r, f) ==
    LET result      == heap.objs[r]
        messages    == heap.arrs[result.messages]
        newMessages == filter(messages, f, result)
        arr         == Len(heap.arrs) + 1
        newResult   ==
            [result EXCEPT
                !.messages            = arr,
                !.errorCount          = reduce(newMessages, "countErrorMessage", 0),
                !.warningCount        = reduce(newMessages, "countWarningMessage", 0),
                !.fixableErrorCount   = reduce(newMessages, "countFixableErrorMessage", 0),
                !.fixableWarningCount = reduce(newMessages, "countFixableWarningMessage", 0),
                !.fatalErrorCount     = reduce(newMessages, "countFatalErrorMessage", 0)]
    IN  [objs |-> Append(heap.objs, newResult),
         arrs |-> Append(heap.arrs, newMessages),
         ret  |-> Len(heap.objs) + 1]

StreamIdle ==
    /\ stage = "generic"
    /\ hasFinal = FALSE
    /\ source = <<>>
    /\ written = <<>>
    /\ buffer = <<>>
    /\ inflight = <<>>
    /\ ended = FALSE
    /\ finalState = "none"
    /\ destroyed = FALSE
    /\ finished = FALSE
    /\ forwarded = <<>>
    /\ emitted = <<>>
    /\ results = EmptyResults
    /\ thrown = <<>>
    /\ handed = <<>>
    /\ log = <<>>

FilterInit ==
    /\ \E list \in MessageLists :
        /\ objs = <<lintResult(1, list)>>
        /\ arrs = <<list>>
    /\ calls = <<>>
    /\ StreamIdle
    /\ MigrateIdle
    /\ UtilIdle

\* One call of filterResult on result object r, recorded with what r held before.
Call(r, f) ==
    LET out == filterResult([objs |-> objs, arrs |-> arrs], r, f) IN
        /\ objs' = out.objs
        /\ arrs' = out.arrs
        /\ calls' = Append(calls, [input          |-> r,
                                   filter         |-> f,
                                   ret            |-> out.ret,
                                   before         |-> objs[r],
                                   messagesBefore |-> arrs[objs[r].messages]])
        /\ UNCHANGED <<streamVars, migrateVars, utilVars>>

\* filterResult(result, filter) on a linter result.
FilterOnce ==
    /\ calls = <<>>
    /\ \E f \in Filters : Call(1, f)

\* filterResult(filterResult(result, f), g), or a second call on the first input.
FilterAgain ==
    /\ Len(calls) = 1
    /\ \E r \in DOMAIN objs : \E f \in Filters : Call(r, f)

FilterNext ==
    \/ FilterOnce
    \/ FilterAgain

SpecFilter == FilterInit /\ [][FilterNext]_vars

-----------------------------------------------------------------------------
(* Properties of filterResult.                                             *)

Counts(result) ==
    <<result.errorCount, result.warningCount, result.fixableErrorCount,
      result.fixableWarningCount, result.fatalErrorCount>>

\* The indices of the messages a call's filter accepts, from the input as it was.
Kept(c) ==
    {i \in DOMAIN c.messagesBefore :
        callFilter(c.filter, c.before, c.messagesBefore[i], i - 1, c.messagesBefore)}

\* The k-th smallest element of a set of indices.
Nth(S, k) == CHOOSE i \in S : Cardinality({j \in S : j <= i}) = k

Errors(list) == {k \in DOMAIN list : list[k].severity > 1}

Warnings(list) == {k \in DOMAIN list : list[k].severity = 1}

WithFix(list) == {k \in DOMAIN list : list[k].fix # "undefined"}

WithFatal(list) == {k \in DOMAIN list : list[k].fatal = "true"}

\* C6: the result filterResult returns holds exactly the messages of the input
\* that the predicate accepts, in their original order, and each of its five
\* counts is the classification counted over that filtered sequence.
C6_FilteredMessagesAndCounts ==
    \A n \in DOMAIN calls :
        LET c   == calls[n]
            new == arrs[objs[c.ret].messages]
        IN  /\ Len(new) = Cardinality(Kept(c))
            /\ \A k \in DOMAIN new : new[k] = c.messagesBefore[Nth(Kept(c), k)]
            /\ objs[c.ret].errorCount = Cardinality(Errors(new))
            /\ objs[c.ret].warningCount = Cardinality(Warnings(new))
            /\ objs[c.ret].fixableErrorCount = Cardinality(Errors(new) \cap WithFix(new))
            /\ objs[c.ret].fixableWarningCount = Cardinality(Warnings(new) \cap WithFix(new))
            /\ objs[c.ret].fatalErrorCount = Cardinality(Errors(new) \cap WithFatal(new))
            /\ objs[c.ret].filePath = c.before.filePath

\* C6 witness: a filter kept two of three messages, among them a fatal warning and
\* a fixable error, and dropped the third.
C6_Witness ==
    \E n \in DOMAIN calls :
        LET c   == calls[n]
            new == arrs[objs[c.ret].messages]
        IN  /\ Len(c.messagesBefore) = 3
            /\ Len(new) = 2
            /\ \E k \in DOMAIN new : new[k].severity = 1 /\ new[k].fatal = "true"
            /\ objs[c.ret].fixableErrorCount = 1
            /\ objs[c.ret].fatalErrorCount = 0

\* The filters whose answer depends on the message alone.
MessageFilters == {"isError", "isWarning", "hasFix"}

Refiltered(n, m) ==
    /\ n < m
    /\ calls[m].input = calls[n].ret
    /\ calls[m].filter = calls[n].filter

\* C7 (as stated): for every predicate, filtering the filtered result again with
\* the same predicate leaves the five counts as they were.
C7_Original ==
    \A n, m \in DOMAIN calls :
        Refiltered(n, m) => Counts(objs[calls[m].ret]) = Counts(objs[calls[n].ret])

\* C7 (amended): for every predicate whose answer depends on the message alone
\* (not on the index, the message list or this), filtering the filtered result
\* again with the same predicate leaves the five counts as they were.
C7_IdempotentOnMessageFilters ==
    \A n, m \in DOMAIN calls :
        Refiltered(n, m) /\ calls[n].filter \in MessageFilters =>
            /\ Counts(objs[calls[m].ret]) = Counts(objs[calls[n].ret])
            /\ arrs[objs[calls[m].ret].messages] = arrs[objs[calls[n].ret].messages]

\* C7 witness: a message-only filter dropped a message the first time and was
\* applied again to what it returned.
C7_Witness ==
    \E n, m \in DOMAIN calls :
        /\ Refiltered(n, m)
        /\ calls[n].filter = "isWarning"
        /\ Len(calls[n].messagesBefore) = 3
        /\ Len(calls[m].messagesBefore) = 2

\* C8: filterResult does not mutate its input: after the call the input result
\* has the message sequence and the five counts it had before, and what is
\* returned is another object with another message array.
C8_InputNotMutated ==
    \A n \in DOMAIN calls :
        LET c == calls[n] IN
            /\ objs[c.input] = c.before
            /\ arrs[objs[c.input].messages] = c.messagesBefore
            /\ Counts(objs[c.input]) = Counts(c.before)
            /\ c.ret # c.input
            /\ objs[c.ret].messages # objs[c.input].messages

\* C8 witness: a call dropped messages from a three-message result, whose own
\* list still has the three.
C8_Witness ==
    \E n \in DOMAIN calls :
        LET c == calls[n] IN
            /\ Len(arrs[objs[c.input].messages]) = 3
            /\ Len(arrs[objs[c.ret].messages]) = 1
            /\ objs[c.input].errorCount = 2
            /\ objs[c.ret].errorCount = 0

-----------------------------------------------------------------------------
(* migrateOptions.                                                         *)
(*                                                                         *)
(* A JavaScript value is a record tagged with its type; an object is the   *)
(* sequence of its own properties in insertion order.  The strings of an   *)
(* envs or globals list are sequences of tokens, each ":" a token and each *)
(* run of other characters a token, so that split(':') has something to    *)
(* split.                                                                  *)

Undefined == [t |-> "undefined"]
Null == [t |-> "null"]
Bool(b) == [t |-> "boolean", b |-> b]
Str(x) == [t |-> "string", s |-> x]
Arr(items) == [t |-> "array", items |-> items]
Obj(props) == [t |-> "object", props |-> props]
Fn(name) == [t |-> "function", name |-> name]

Prop(k, v) == [key |-> k, value |-> v]

hasOwn(props, k) == \E i \in DOMAIN props : props[i].key = k

IndexOf(props, k) == CHOOSE i \in DOMAIN props : props[i].key = k

\* object[k]
Get(props, k) == IF hasOwn(props, k) THEN props[IndexOf(props, k)].value ELSE Undefined

\* object[k] = v: an existing property keeps its place, a new one goes last.
Set(props, k, v) ==
    IF hasOwn(props, k)
    THEN [props EXCEPT ![IndexOf(props, k)].value = v]
    ELSE Append(props, Prop(k, v))

\* delete object[k]
Delete(props, k) == SelectSeq(props, LAMBDA q : q.key # k)

\* const { k1: ..., k2: ..., ...rest } = object
Rest(props, taken) == SelectSeq(props, LAMBDA q : q.key \notin taken)

\* typeof telling only undefined and strings from everything else.
typeofAllObjects(v) ==
    CASE v.t = "undefined" -> "undefined"
      [] v.t = "string"    -> "string"
      [] OTHER             -> "object"

typeof(v) ==
    CASE v.t = "undefined" -> "undefined"
      [] v.t = "boolean"   -> "boolean"
      [] v.t = "string"    -> "string"
      [] v.t = "function"  -> "function"
      [] OTHER             -> "object"

truthy(v) ==
    CASE v.t = "undefined" -> FALSE
      [] v.t = "null"      -> FALSE
      [] v.t = "boolean"   -> v.b
      [] v.t = "string"    -> v.s # ""
      [] OTHER             -> TRUE

forbiddenOptions ==
    <<"cache", "cacheFile", "cacheLocation", "cacheStrategy",
      "errorOnUnmatchedPattern", "extensions", "globInputPaths">>

\* Array.prototype.join(separator), as the sequence of the pieces of the string.
RECURSIVE join(_, _)
join(list, separator) ==
    IF list = <<>> THEN <<>>
    ELSE IF Len(list) = 1 THEN <<list[1]>>
    ELSE <<list[1], separator>> \o join(Tail(list), separator)

Threw(message) ==
    [status |-> "threw",
     error  |-> [code |-> "ESLINT_INVALID_OPTIONS", message |-> message]]

Returned(value) == [status |-> "returned", value |-> value]

\* The forbidden names found by scanning the keys of the options as given.
invalidOptionsAsGiven(props) ==
    LET keys == [i \in DOMAIN props |-> props[i].key] IN
        SelectSeq(keys, LAMBDA k : \E j \in DOMAIN forbiddenOptions : forbiddenOptions[j] = k)

\* forbiddenOptions.filter(option => hasOwn(options, option))
invalidOptions(props) == SelectSeq(forbiddenOptions, LAMBDA option : hasOwn(props, option))

\* The newer name taking precedence over the legacy one.
warnIgnoredNewerFirst(warnFileIgnored, rawWarnIgnored) ==
    IF rawWarnIgnored # Undefined THEN rawWarnIgnored ELSE warnFileIgnored

\* warnFileIgnored !== undefined ? warnFileIgnored : rawWarnIgnored
resolveWarnIgnored(warnFileIgnored, rawWarnIgnored) ==
    IF warnFileIgnored # Undefined THEN warnFileIgnored ELSE rawWarnIgnored

\* String.prototype.split(':') on a token sequence: the pieces between the ":" tokens.
RECURSIVE split(_)
split(tokens) ==
    IF \A i \in DOMAIN tokens : tokens[i] # ":" THEN <<tokens>>
    ELSE LET i == CHOOSE j \in DOMAIN tokens :
                    tokens[j] = ":" /\ \A k \in 1..(j - 1) : tokens[k] # ":"
         IN  <<SubSeq(tokens, 1, i - 1)>> \o split(SubSeq(tokens, i + 1, Len(tokens)))

\* The string a piece returned by split stands for.
text(piece) == IF piece = <<>> THEN "" ELSE piece[1]

ObjectPrototype == [t |-> "prototype", name |-> "Object.prototype"]

\* The object literal { }: no own property, prototype Object.prototype.
PlainObject(props) == [t |-> "object", props |-> props, proto |-> ObjectPrototype]

\* object[key] = value on a plain object.  "__proto__" is not an own property
\* but the accessor inherited from Object.prototype: its setter changes the
\* prototype when the value is an object or null and ignores any other value.
Assign(object, key, value) ==
    IF key = "__proto__"
    THEN IF value.t \in {"object", "null"}
         THEN [object EXCEPT !.proto = value] ELSE object
    ELSE [object EXCEPT !.props = Set(object.props, key, value)]

\* The reducer giving up on the rest of the list at a "__proto__" entry.
RECURSIVE reduceKeysStopAtProto(_, _, _)
reduceKeysStopAtProto(keys, map, defaultValue) ==
    IF keys = <<>> THEN map
    ELSE LET pieces == split(Head(keys))
             key    == text(pieces[1])
         IN  IF key = "__proto__" THEN map
             ELSE reduceKeysStopAtProto(
                      Tail(keys),
                      Assign(map, key,
                             IF Len(pieces) = 1 THEN Bool(defaultValue)
                             ELSE Bool(text(pieces[2]) = "true")),
                      defaultValue)

\* The reducer of toBooleanMap: one entry of the list applied to the map.
RECURSIVE reduceKeys(_, _, _)
reduceKeys(keys, map, defaultValue) ==
    IF keys = <<>> THEN map
    ELSE LET pieces == split(Head(keys))
             key    == text(pieces[1])
             next   == IF key # "__proto__"
                       THEN Assign(map, key,
                                   IF Len(pieces) = 1 THEN Bool(defaultValue)
                                   ELSE Bool(text(pieces[2]) = "true"))
                       ELSE map
         IN  reduceKeys(Tail(keys), next, defaultValue)

\* toBooleanMap(keys, defaultValue, displayName): what it returns, or that it throws.
toBooleanMap(keys, defaultValue, displayName) ==
    IF truthy(keys) /\ keys.t # "array"
    THEN Threw(<<"Option ", displayName, " must be an array">>)
    ELSE IF truthy(keys) /\ Len(keys.items) > 0
    THEN Returned(reduceKeys(keys.items, PlainObject(<<>>), defaultValue))
    ELSE Returned(Undefined)

\* The calls of migrateOption, in order: old name, new name, conversion.
migrations ==
    << [oldName |-> "envs",          newName |-> "env",            convert |-> "envs"],
       [oldName |-> "extends",       newName |-> "extends",        convert |-> "value"],
       [oldName |-> "globals",       newName |-> "globals",        convert |-> "globals"],
       [oldName |-> "ignorePattern", newName |-> "ignorePatterns", convert |-> "value"],
       [oldName |-> "parser",        newName |-> "parser",         convert |-> "value"],
       [oldName |-> "parserOptions", newName |-> "parserOptions",  convert |-> "value"],
       [oldName |-> "plugins",       newName |-> "plugins",        convert |-> "value"],
       [oldName |-> "rules",         newName |-> "rules",          convert |-> "value"] >>

\* The conversion of globals using the default of envs.
convertGlobalsTrue(how, value) ==
    CASE how = "envs"    -> toBooleanMap(value, TRUE, "envs")
      [] how = "globals" -> toBooleanMap(value, TRUE, "globals")
      [] OTHER           -> Returned(value)

convert(how, value) ==
    CASE how = "envs"    -> toBooleanMap(value, TRUE, "envs")
      [] how = "globals" -> toBooleanMap(value, FALSE, "globals")
      [] OTHER           -> Returned(value)

\* migrateOption leaving alone a field the supplied overrideConfig already has.
migrateOptionKeepSupplied(st, mig) ==
    IF st.status = "threw" THEN st
    ELSE IF mig.oldName = "plugins" /\ Get(st.eslintOptions, "plugins").t # "array" THEN st
    ELSE LET value == Get(st.eslintOptions, mig.oldName)
             left  == Delete(st.eslintOptions, mig.oldName)
             conv  == convert(mig.convert, value)
         IN  IF value = Undefined \/ hasOwn(st.overrideConfig, mig.newName)
             THEN [st EXCEPT !.eslintOptions = left]
             ELSE IF conv.status = "threw"
             THEN [status |-> "threw", error |-> conv.error,
                   eslintOptions |-> left, overrideConfig |-> st.overrideConfig]
             ELSE [st EXCEPT !.eslintOptions = left,
                             !.overrideConfig = Set(st.overrideConfig, mig.newName, conv.value)]

\* migrateOption(oldName, newName, convert) on the pair (eslintOptions,
\* overrideConfig); plugins is migrated only when it is an array.
migrateOption(st, mig) ==
    IF st.status = "threw" THEN st
    ELSE IF mig.oldName = "plugins" /\ Get(st.eslintOptions, "plugins").t # "array" THEN st
    ELSE LET value == Get(st.eslintOptions, mig.oldName)
             left  == Delete(st.eslintOptions, mig.oldName)
             conv  == convert(mig.convert, value)
         IN  IF value = Undefined
             THEN [st EXCEPT !.eslintOptions = left]
             ELSE IF conv.status = "threw"
             THEN [status |-> "threw", error |-> conv.error,
                   eslintOptions |-> left, overrideConfig |-> st.overrideConfig]
             ELSE [st EXCEPT !.eslintOptions = left,
                             !.overrideConfig = Set(st.overrideConfig, mig.newName, conv.value)]

RECURSIVE migrateAll(_, _)
migrateAll(st, n) ==
    IF n > Len(migrations) THEN st
    ELSE migrateAll(migrateOption(st, migrations[n]), n + 1)

DefaultESLint == Fn("require('eslint').ESLint")

\* The objects of a call of migrateOptions: the two the caller owns (its
\* options and the overrideConfig in them) and the two the call makes.
CallerObjects == {"options", "rawOverrideConfig"}

ObjectRefs == CallerObjects \cup {"eslintOptions", "overrideConfig"}

\* eslintOptions being the options object itself, less nothing.
restObjectAlias(ref) == ref

\* const { ..., ...eslintOptions } = options: the rest pattern makes a new object.
restObject(ref) == "eslintOptions"

\* overrideConfig being rawOverrideConfig itself.
spreadObjectAlias(ref) == ref

\* { ...rawOverrideConfig }: the spread makes a new object.
spreadObject(ref) == "overrideConfig"

\* migrateOptions(options) for an options object: its outcome, and what each
\* object holds when the call returns or throws.
migrateRun(props) ==
    LET rawESLint         == Get(props, "[ESLintKey]")
        rawOverrideConfig == Get(props, "overrideConfig")
        quiet             == Get(props, "quiet")
        warnFileIgnored   == Get(props, "warnFileIgnored")
        rawWarnIgnored    == Get(props, "warnIgnored")
        rest              == Rest(props, {"[ESLintKey]", "overrideConfig", "quiet",
                                          "warnFileIgnored", "warnIgnored"})
        invalid           == invalidOptions(props)
        overrideConfig    == IF rawOverrideConfig.t = "object"
                             THEN rawOverrideConfig.props ELSE <<>>
        withConfig        == Set(rest, "overrideConfig", Obj(overrideConfig))
        configFile        == Get(withConfig, "configFile")
        renamed           == IF configFile # Undefined
                             THEN Set(Delete(withConfig, "configFile"),
                                      "overrideConfigFile", configFile)
                             ELSE Delete(withConfig, "configFile")
        done              == migrateAll([status |-> "ok", eslintOptions |-> renamed,
                                         overrideConfig |-> overrideConfig], 1)
        ESLint            == IF truthy(rawESLint) THEN rawESLint ELSE DefaultESLint
        warnIgnored       == resolveWarnIgnored(warnFileIgnored, rawWarnIgnored)
        given             == [ref \in ObjectRefs |->
                                  IF ref = "options" THEN props
                                  ELSE IF ref = "rawOverrideConfig" THEN overrideConfig
                                  ELSE <<>>]
        destructured      == [given EXCEPT ![restObject("options")] = rest]
        migratedObjects   ==
            [[destructured EXCEPT ![spreadObject("rawOverrideConfig")] = done.overrideConfig]
                EXCEPT ![restObject("options")] =
                    Set(done.eslintOptions, "overrideConfig", Obj(done.overrideConfig))]
    IN  IF Len(invalid) > 0
        THEN [outcome |-> Threw(<<"Invalid options: ">> \o join(invalid, ", ")),
              objects |-> destructured]
        ELSE IF rawOverrideConfig.t \notin {"undefined", "null"}
                /\ typeof(rawOverrideConfig) # "object"
        THEN [outcome |-> Threw(<<"Option overrideConfig must be an object or null">>),
              objects |-> destructured]
        ELSE IF done.status = "threw"
        THEN [outcome |-> [status |-> "threw", error |-> done.error],
              objects |-> migratedObjects]
        ELSE [outcome |-> Returned(Obj(<< Prop("ESLint", ESLint),
                                          Prop("eslintOptions",
                                               Obj(Set(done.eslintOptions, "overrideConfig",
                                                       Obj(done.overrideConfig)))),
                                          Prop("quiet", quiet),
                                          Prop("warnIgnored", warnIgnored) >>)),
              objects |-> migratedObjects]

\* migrateOptions(options) for an options object: what it returns or throws.
migrateObject(props) == migrateRun(props).outcome

\* What the caller's options object and its overrideConfig hold after the call.
callerObjects(opts) ==
    IF opts.t # "object"
    THEN [options |-> opts, overrideConfig |-> Undefined]
    ELSE LET objects == migrateRun(opts.props).objects
             raw     == Get(opts.props, "overrideConfig")
         IN  [options        |-> Obj(objects["options"]),
              overrideConfig |-> IF raw.t = "object"
                                 THEN Obj(objects["rawOverrideConfig"]) ELSE raw]

\* A string handled as the legacy option configFile of an options object.
migrateOptionsStringAsConfigFile(opts) ==
    migrateObject(IF opts = Undefined THEN <<>>
                  ELSE IF typeof(opts) = "string" THEN <<Prop("configFile", opts)>>
                  ELSE opts.props)

\* migrateOptions(options = { })
migrateOptions(opts) ==
    IF typeof(opts) = "string"
    THEN Returned(Obj(<<Prop("eslintOptions", Obj(<<Prop("overrideConfigFile", opts)>>))>>))
    ELSE migrateObject(IF opts = Undefined THEN <<>> ELSE opts.props)

\* The option objects handed to migrateOptions: up to MaxOptions own properties,
\* in any order, each with one of a few values.
OptionKeys ==
    {"warnIgnored", "warnFileIgnored", "quiet", "fix", "overrideConfig", "configFile",
     "globals", "cache", "cacheFile", "extensions", "globInputPaths"}

OptionValues(k) ==
    CASE k \in {"warnIgnored", "warnFileIgnored"} -> {Bool(TRUE), Bool(FALSE), Undefined}
      [] k = "quiet"          -> {Bool(TRUE)}
      [] k = "fix"            -> {Bool(TRUE)}
      [] k = "overrideConfig" -> {Null, Undefined, Obj(<<Prop("rules", Obj(<<>>))>>),
                                  Str("config"), Bool(TRUE), Fn("config")}
      [] k = "configFile"     -> {Str("cfg.json")}
      [] k = "globals"        -> {Arr(<< <<"$">>, <<"jQuery", ":", "true">> >>), Str("$")}
      [] k = "cache"          -> {Bool(TRUE), Undefined}
      [] k = "cacheFile"      -> {Str(".eslintcache")}
      [] k = "extensions"     -> {Arr(<< <<".js">> >>)}
      [] k = "globInputPaths" -> {Bool(FALSE)}

OptionProps == UNION { {Prop(k, v) : v \in OptionValues(k)} : k \in OptionKeys }

OptionLists ==
    UNION { { ps \in [1..n -> OptionProps] :
                \A i, j \in 1..n : i # j => ps[i].key # ps[j].key } : n \in 0..MaxOptions }

\* The caller's options object and its overrideConfig as they are handed over.
Handed(opts) ==
    [options        |-> opts,
     overrideConfig |-> IF opts.t = "object" THEN Get(opts.props, "overrideConfig")
                        ELSE Undefined]

\* The strings handed to migrateOptions in place of an options object.
OptionStrings == {Str("cfg.json"), Str("cache"), Str("")}

MigrateInit ==
    /\ options \in {Undefined} \cup OptionStrings \cup {Obj(ps) : ps \in OptionLists}
    /\ migrated = [status |-> "idle"]
    /\ caller = Handed(options)
    /\ StreamIdle
    /\ FilterIdle
    /\ UtilIdle

\* The one call of migrateOptions.
Migrate ==
    /\ migrated.status = "idle"
    /\ migrated' = migrateOptions(options)
    /\ caller' = callerObjects(options)
    /\ UNCHANGED options
    /\ UNCHANGED <<streamVars, filterVars, utilVars>>

MigrateNext == Migrate

SpecMigrate == MigrateInit /\ [][MigrateNext]_vars

\* The entries of an envs or globals list: a string is the sequence of its
\* pieces, each ":" one piece and each run of other characters one piece.
Entries ==
    { <<"$">>, <<"jQuery", ":", "true">>, <<"jQuery", ":", "false">>,
      <<"$", ":", "writable">>, <<"jQuery", ":">>, <<"a", ":", "true", ":", "x">>,
      <<"__proto__">>, <<"__proto__", ":", "true">> }

EntryLists == UNION { [1..n -> Entries] : n \in 0..MaxEntries }

\* migrateOptions called with one legacy list, alone or after an overrideConfig
\* that already has the field the list is migrated to.
BooleanMapInit ==
    /\ \E name \in {"envs", "globals"} : \E list \in EntryLists :
       \E before \in { <<>>,
                        <<Prop("overrideConfig",
                               Obj(<<Prop("env", Obj(<<Prop("node", Bool(TRUE))>>)),
                                     Prop("globals", Obj(<<Prop("$", Str("writable"))>>))>>))>> } :
           options = Obj(before \o <<Prop(name, Arr(list))>>)
    /\ migrated = [status |-> "idle"]
    /\ caller = Handed(options)
    /\ StreamIdle
    /\ FilterIdle
    /\ UtilIdle

SpecBooleanMap == BooleanMapInit /\ [][MigrateNext]_vars

\* Options objects mixing legacy options, the options they are migrated to, the
\* plugin's own options and options of the engine.
LegacyProps ==
    { Prop("configFile", Str("cfg.json")), Prop("configFile", Undefined),
      Prop("overrideConfigFile", Str("base.json")),
      Prop("rules", Obj(<<Prop("semi", Str("error"))>>)),
      Prop("plugins", Arr(<< <<"react">> >>)),
      Prop("plugins", Obj(<<Prop("react", Fn("plugin"))>>)),
      Prop("ignorePattern", Str("dist")),
      Prop("envs", Arr(<< <<"browser">> >>)),
      Prop("parser", Str("espree")), Prop("parser", Undefined),
      Prop("globals", Str("$")),
      Prop("fix", Bool(TRUE)),
      Prop("cache", Bool(TRUE)),
      Prop("quiet", Bool(TRUE)),
      Prop("[ESLintKey]", Fn("CustomESLint")),
      Prop("overrideConfig", Null),
      Prop("overrideConfig", Obj(<< Prop("rules", Obj(<<>>)),
                                    Prop("ignorePatterns", Str("lib")),
                                    Prop("parser", Str("babel")),
                                    Prop("root", Bool(TRUE)) >>)) }

LegacyLists ==
    UNION { { ps \in [1..n -> LegacyProps] :
                \A i, j \in 1..n : i # j => ps[i].key # ps[j].key } : n \in 0..MaxOptions }

LegacyInit ==
    /\ options \in {Obj(ps) : ps \in LegacyLists}
    /\ migrated = [status |-> "idle"]
    /\ caller = Handed(options)
    /\ StreamIdle
    /\ FilterIdle
    /\ UtilIdle

SpecLegacy == LegacyInit /\ [][MigrateNext]_vars

-----------------------------------------------------------------------------
(* Properties of migrateOptions.                                           *)

\* The own properties of the options argument (none when it is left out).
Given == IF options.t = "object" THEN options.props ELSE <<>>

CalledOnObject == migrated.status # "idle" /\ options.t \in {"object", "undefined"}

ReturnedProps == migrated.value.props

BothGiven ==
    /\ Get(Given, "warnIgnored") # Undefined
    /\ Get(Given, "warnFileIgnored") # Undefined

\* C9 (as stated): when both warnIgnored and warnFileIgnored are given, the value
\* given under the newer name warnIgnored is the one surfaced.
C9_Original ==
    CalledOnObject /\ migrated.status = "returned" /\ BothGiven =>
        Get(ReturnedProps, "warnIgnored") = Get(Given, "warnIgnored")

\* C9 (amended): migrateOptions surfaces one warnIgnored field for the two
\* synonyms: when both are given, the value given under the legacy name
\* warnFileIgnored wins; when only one is given (the other absent or undefined),
\* that value is surfaced; when neither is given the field is undefined.  Neither
\* name is passed on to the engine options.
C9_LegacyNameWins ==
    CalledOnObject /\ migrated.status = "returned" =>
        LET warnIgnored == Get(ReturnedProps, "warnIgnored")
            engine      == Get(ReturnedProps, "eslintOptions").props
        IN  /\ hasOwn(ReturnedProps, "warnIgnored")
            /\ ~hasOwn(ReturnedProps, "warnFileIgnored")
            /\ ~hasOwn(engine, "warnIgnored")
            /\ ~hasOwn(engine, "warnFileIgnored")
            /\ BothGiven => warnIgnored = Get(Given, "warnFileIgnored")
            /\ Get(Given, "warnFileIgnored") = Undefined =>
                  warnIgnored = Get(Given, "warnIgnored")
            /\ Get(Given, "warnIgnored") = Undefined =>
                  warnIgnored = Get(Given, "warnFileIgnored")

\* C9 witness: both names were given with different values and the legacy one
\* was surfaced.
C9_Witness ==
    /\ CalledOnObject
    /\ migrated.status = "returned"
    /\ Get(Given, "warnIgnored") = Bool(TRUE)
    /\ Get(Given, "warnFileIgnored") = Bool(FALSE)
    /\ Get(ReturnedProps, "warnIgnored") = Bool(FALSE)

Forbidden == {forbiddenOptions[i] : i \in DOMAIN forbiddenOptions}

Offending == {k \in Forbidden : hasOwn(Given, k)}

\* The place of a forbidden name in the list of forbidden options.
ForbiddenRank(name) == CHOOSE i \in DOMAIN forbiddenOptions : forbiddenOptions[i] = name

IsForbiddenError ==
    /\ migrated.status = "threw"
    /\ migrated.error.code = "ESLINT_INVALID_OPTIONS"
    /\ migrated.error.message[1] = "Invalid options: "

\* The names an "Invalid options: a, b, c" message lists, in order.
Listed ==
    LET message == migrated.error.message IN
        [i \in 1..(Len(message) \div 2) |-> message[2 * i]]

ListsEveryOffender ==
    /\ IsForbiddenError
    /\ Len(migrated.error.message) = 2 * Cardinality(Offending)
    /\ {Listed[i] : i \in DOMAIN Listed} = Offending
    /\ \A i \in DOMAIN Listed : i > 1 => migrated.error.message[2 * i - 1] = ", "

\* C10 (as stated): with a forbidden option among the own properties of the
\* options, the invalid-options error lists every offending name in the order in
\* which the names come in the supplied options; with none, no such error.
C10_Original ==
    migrated.status # "idle" /\ options.t = "object" =>
        IF Offending # {}
        THEN /\ ListsEveryOffender
             /\ \A i, j \in DOMAIN Listed :
                   i < j => IndexOf(Given, Listed[i]) < IndexOf(Given, Listed[j])
        ELSE ~IsForbiddenError

\* C10 (amended): with a forbidden option among the own properties of the
\* options, the invalid-options error lists every offending name in the order of
\* the fixed list of forbidden options (cache, cacheFile, cacheLocation,
\* cacheStrategy, errorOnUnmatchedPattern, extensions, globInputPaths), whatever
\* their order in the supplied options; with none, no such error.
C10_ForbiddenListOrder ==
    migrated.status # "idle" /\ options.t = "object" =>
        IF Offending # {}
        THEN /\ ListsEveryOffender
             /\ \A i, j \in DOMAIN Listed :
                   i < j => ForbiddenRank(Listed[i]) < ForbiddenRank(Listed[j])
        ELSE ~IsForbiddenError

\* C10 witness: extensions was given before cache, beside an option that is not
\* forbidden, and the error lists cache before extensions.
C10_Witness ==
    /\ options.t = "object"
    /\ Len(Given) = 3
    /\ hasOwn(Given, "fix")
    /\ hasOwn(Given, "cache") /\ hasOwn(Given, "extensions")
    /\ IndexOf(Given, "extensions") < IndexOf(Given, "cache")
    /\ migrated.status = "threw"
    /\ migrated.error.message = <<"Invalid options: ", "cache", ", ", "extensions">>

-----------------------------------------------------------------------------
(* Properties of the legacy lists envs and globals.                        *)

\* The legacy list handed over (SpecBooleanMap hands over exactly one) and the
\* field of overrideConfig it is migrated to.
ListName == IF hasOwn(Given, "envs") THEN "envs" ELSE "globals"

GivenList == Get(Given, ListName).items

MapName == IF ListName = "envs" THEN "env" ELSE "globals"

ListDefault == ListName = "envs"

ListMigrated ==
    /\ migrated.status = "returned"
    /\ options.t = "object"
    /\ Get(Given, ListName).t = "array"

MigratedConfig == Get(Get(ReturnedProps, "eslintOptions").props, "overrideConfig").props

MigratedMap == Get(MigratedConfig, MapName)

\* An entry read as a string: the place of its first ":" (0 when it has none),
\* the text before it and the text between it and the next ":".
Colon(e) ==
    IF \E i \in DOMAIN e : e[i] = ":"
    THEN CHOOSE i \in DOMAIN e : e[i] = ":" /\ \A j \in 1..(i - 1) : e[j] # ":"
    ELSE 0

KeyOf(e) ==
    IF Colon(e) = 0 THEN (IF e = <<>> THEN "" ELSE e[1])
    ELSE IF Colon(e) = 1 THEN "" ELSE e[1]

HasValue(e) == Colon(e) # 0

ValueOf(e) ==
    IF Colon(e) = Len(e) \/ e[Colon(e) + 1] = ":" THEN "" ELSE e[Colon(e) + 1]

\* An explicit value taken as it is written.
Explicit(v) ==
    IF v = "true" THEN Bool(TRUE) ELSE IF v = "false" THEN Bool(FALSE) ELSE Str(v)

\* The entries that decide the map: for each key, its first and its last entry.
FirstOf(i) ==
    /\ KeyOf(GivenList[i]) # "__proto__"
    /\ \A j \in 1..(i - 1) : KeyOf(GivenList[j]) # KeyOf(GivenList[i])

LastOf(i) ==
    /\ KeyOf(GivenList[i]) # "__proto__"
    /\ \A j \in (i + 1)..Len(GivenList) : KeyOf(GivenList[j]) # KeyOf(GivenList[i])

\* C11 (as stated): every entry "key" or "key:value" of an envs or globals list
\* has its map entry under overrideConfig.env or overrideConfig.globals: the
\* default (true for envs, false for globals) for an entry without ":value", the
\* explicit value for an entry with one.
C11_Original ==
    ListMigrated /\ GivenList # <<>> =>
        /\ MigratedMap.t = "object"
        /\ \A i \in DOMAIN GivenList :
              LET e == GivenList[i] IN
                  KeyOf(e) # "__proto__" /\ Len(e) \in {1, 3} =>
                      /\ hasOwn(MigratedMap.props, KeyOf(e))
                      /\ Get(MigratedMap.props, KeyOf(e)) =
                            IF HasValue(e) THEN Explicit(ValueOf(e))
                            ELSE Bool(ListDefault)

\* C11 (amended): the map under overrideConfig.env or overrideConfig.globals has
\* one entry for each distinct key of the list (the text before the first ":")
\* other than "__proto__", in the order of first appearance; the last entry with
\* that key decides the value: the default (true for envs, false for globals)
\* when it has no ":", else true when the text between its first and second ":"
\* is exactly "true" and false for any other text.  An empty list gives no map:
\* the field is set to undefined.
C11_BooleanMap ==
    ListMigrated =>
        IF GivenList = <<>>
        THEN hasOwn(MigratedConfig, MapName) /\ MigratedMap = Undefined
        ELSE /\ MigratedMap.t = "object"
             /\ Len(MigratedMap.props) = Cardinality({i \in DOMAIN GivenList : FirstOf(i)})
             /\ \A i \in DOMAIN GivenList :
                   LET e == GivenList[i] IN
                       /\ FirstOf(i) =>
                             /\ hasOwn(MigratedMap.props, KeyOf(e))
                             /\ \A j \in DOMAIN GivenList :
                                   i < j /\ FirstOf(j) =>
                                       IndexOf(MigratedMap.props, KeyOf(e))
                                         < IndexOf(MigratedMap.props, KeyOf(GivenList[j]))
                       /\ LastOf(i) =>
                             Get(MigratedMap.props, KeyOf(e)) =
                                 IF HasValue(e) THEN Bool(ValueOf(e) = "true")
                                 ELSE Bool(ListDefault)

\* C11 witness: globals ['$', 'jQuery:true'] was migrated to {$: false, jQuery: true}.
C11_Witness ==
    /\ ListMigrated
    /\ ListName = "globals"
    /\ GivenList = << <<"$">>, <<"jQuery", ":", "true">> >>
    /\ MigratedMap.props = <<Prop("$", Bool(FALSE)), Prop("jQuery", Bool(TRUE))>>

\* C12: an entry of an envs or globals list whose key is "__proto__", with or
\* without a ":value", is dropped silently: the call raises no error, the map
\* has no own "__proto__" key, its prototype is still Object.prototype, and every
\* other entry of the list has its key in the map.
C12_ProtoDropped ==
    /\ migrated.status # "idle" /\ options.t = "object" /\ Get(Given, ListName).t = "array"
          => migrated.status = "returned"
    /\ ListMigrated /\ GivenList # <<>> =>
          /\ MigratedMap.t = "object"
          /\ ~hasOwn(MigratedMap.props, "__proto__")
          /\ MigratedMap.proto = ObjectPrototype
          /\ \A i \in DOMAIN GivenList :
                KeyOf(GivenList[i]) # "__proto__" =>
                    hasOwn(MigratedMap.props, KeyOf(GivenList[i]))

\* C12 witness: a "__proto__:true" entry stood between two other entries and the
\* map holds exactly those two.
C12_Witness ==
    /\ ListMigrated
    /\ Len(GivenList) = 3
    /\ GivenList[1] = <<"$">>
    /\ GivenList[2] = <<"__proto__", ":", "true">>
    /\ GivenList[3] = <<"jQuery", ":", "true">>
    /\ MigratedMap.proto = ObjectPrototype
    /\ [i \in DOMAIN MigratedMap.props |-> MigratedMap.props[i].key] = <<"$", "jQuery">>

-----------------------------------------------------------------------------
(* Properties of migrateOptions: the string shorthand and overrideConfig.  *)

KeysOf(props) == [i \in DOMAIN props |-> props[i].key]

\* C13: given a single string s, migrateOptions returns a value whose only field
\* is the engine options object, whose only key is overrideConfigFile = s: no
\* quiet, warnIgnored, overrideConfig or other field is set, and nothing is
\* validated (no error is raised, whatever the string).
C13_StringShorthand ==
    migrated.status # "idle" /\ options.t = "string" =>
        /\ migrated.status = "returned"
        /\ migrated.value.t = "object"
        /\ KeysOf(ReturnedProps) = <<"eslintOptions">>
        /\ Get(ReturnedProps, "eslintOptions").t = "object"
        /\ KeysOf(Get(ReturnedProps, "eslintOptions").props) = <<"overrideConfigFile">>
        /\ Get(Get(ReturnedProps, "eslintOptions").props, "overrideConfigFile") = options

\* C13 witness: the string "cache", the name of a forbidden option, was given
\* and came back as overrideConfigFile.
C13_Witness ==
    /\ options = Str("cache")
    /\ migrated.status = "returned"
    /\ Get(Get(ReturnedProps, "eslintOptions").props, "overrideConfigFile") = Str("cache")

OverrideConfigMessage == <<"Option overrideConfig must be an object or null">>

\* C19: migrateOptions accepts an explicit overrideConfig only when it is an
\* object, null or absent (undefined): any other type raises the invalid-options
\* error and nothing is returned; an object, null or absent overrideConfig never
\* raises the overrideConfig error.
C19_OverrideConfigType ==
    CalledOnObject =>
        LET given == Get(Given, "overrideConfig") IN
            IF given.t \in {"object", "null", "undefined"}
            THEN ~(migrated.status = "threw" /\ migrated.error.message = OverrideConfigMessage)
            ELSE /\ migrated.status = "threw"
                 /\ migrated.error.code = "ESLINT_INVALID_OPTIONS"
                 /\ Offending = {} => migrated.error.message = OverrideConfigMessage

\* C19 witness: overrideConfig was a function, beside a legacy list that would
\* have been migrated, and the call raised the overrideConfig error.
C19_Witness ==
    /\ CalledOnObject
    /\ Get(Given, "overrideConfig") = Fn("config")
    /\ hasOwn(Given, "globals")
    /\ migrated.status = "threw"
    /\ migrated.error.code = "ESLINT_INVALID_OPTIONS"
    /\ migrated.error.message = OverrideConfigMessage

-----------------------------------------------------------------------------
(* Properties of the errors a stage emits and of the results() stage.      *)

\* C18: every error that leaves a stage is a PluginError: what a handler threw
\* or rejected with is wrapped by createPluginError into a new PluginError of
\* gulp-eslint-new (null or undefined becoming "Unknown Error") unless it is a
\* PluginError already, which is emitted as the identical object; hence
\* createPluginError(createPluginError(e)) is the same object as
\* createPluginError(e).
C18_SingleErrorType ==
    /\ Len(emitted) = Len(thrown)
    /\ \A k \in DOMAIN emitted :
          LET e   == thrown[k]
              out == emitted[k]
          IN  /\ out.kind = "PluginError"
              /\ e.kind = "PluginError" => out = e
              /\ e.kind # "PluginError" =>
                    /\ out.ref # e.ref
                    /\ out.plugin = "gulp-eslint-new"
                    /\ out.showStack
                    /\ out.message = IF e.kind = "null" THEN "Unknown Error" ELSE e.message
              /\ createPluginError(out) = out
              /\ createPluginError(createPluginError(e)) = createPluginError(e)

\* C18 witness: handleFinal rejected with null and the stage emitted a new
\* PluginError "Unknown Error".
C18_Witness ==
    /\ finalState = "rejected"
    /\ Len(thrown) = 1 /\ thrown[1].kind = "null"
    /\ Len(emitted) = 1
    /\ emitted[1].kind = "PluginError"
    /\ emitted[1].message = "Unknown Error"
    /\ emitted[1].ref # thrown[1].ref

NoCounts == [errorCount |-> 0, warningCount |-> 0, fixableErrorCount |-> 0,
             fixableWarningCount |-> 0, fatalErrorCount |-> 0]

CountsOf(r) ==
    [errorCount          |-> r.errorCount,
     warningCount        |-> r.warningCount,
     fixableErrorCount   |-> r.fixableErrorCount,
     fixableWarningCount |-> r.fixableWarningCount,
     fatalErrorCount     |-> r.fatalErrorCount]

\* The five sums over a list of results.
RECURSIVE Totals(_)
Totals(list) ==
    IF list = <<>> THEN NoCounts
    ELSE LET rest == Totals(Tail(list)) IN
        [errorCount          |-> Head(list).errorCount + rest.errorCount,
         warningCount        |-> Head(list).warningCount + rest.warningCount,
         fixableErrorCount   |-> Head(list).fixableErrorCount + rest.fixableErrorCount,
         fixableWarningCount |-> Head(list).fixableWarningCount + rest.fixableWarningCount,
         fatalErrorCount     |-> Head(list).fatalErrorCount + rest.fatalErrorCount]

\* The results attached to a sequence of files, in the order of the files.
Attached(files) ==
    LET with == SelectSeq(files, LAMBDA f : f.eslint.present) IN
        [i \in DOMAIN with |-> with[i].eslint]

\* The files whose handler has been invoked so far, in arrival order.
Handled == SelectSeq(written, LAMBDA f : Count("start", f.id) > 0)

CollectionOf(coll, files) ==
    /\ coll.list = Attached(files)
    /\ CountsOf(coll) = Totals(coll.list)

\* C20: in a results() stage, at every point of the run the collection holds the
\* results of the files handled so far, in arrival order, a file with no result
\* adding nothing, and each of its five counts is the sum of that count over
\* those results; the end-of-stream action is invoked at most once, exactly once
\* in a run that completes or fails, after end of input and with the collection
\* of all the files written.
C20_RunningTotals ==
    stage = "results" =>
        /\ CollectionOf(results, Handled)
        /\ Len(handed) <= 1
        /\ Len(handed) = Count("finalStart", 0)
        /\ finished \/ destroyed => Len(handed) = 1
        /\ \A k \in DOMAIN handed :
              /\ ended
              /\ handed[k] = results
              /\ CollectionOf(handed[k], written)

\* C20 witness: three files, the second without a result, went through a
\* results() stage that completed; the action was handed two results and the
\* totals of both.
C20_Witness ==
    /\ stage = "results"
    /\ finished
    /\ Len(written) = 3
    /\ written[1].eslint = OneError
    /\ written[2].eslint = NoResult
    /\ written[3].eslint = TwoErrors
    /\ Len(handed) = 1
    /\ handed[1].list = <<OneError, TwoErrors>>
    /\ handed[1].errorCount = 3
    /\ handed[1].fatalErrorCount = 1

-----------------------------------------------------------------------------
(* createIgnoreResult.                                                     *)
(*                                                                         *)
(* A string is the sequence of its pieces: each "." and each separator is  *)
(* one piece, each run of other characters is one piece.  A path segment   *)
(* is a string without separators.                                         *)

Separators == {"/", "\\"}

Dot == "."

Parent == <<Dot, Dot>>

\* The length of the longest common prefix of two sequences of segments.
CommonLength(from, to) ==
    CHOOSE n \in 0..Len(from) :
        /\ n <= Len(to)
        /\ SubSeq(from, 1, n) = SubSeq(to, 1, n)
        /\ ~(n < Len(from) /\ n < Len(to) /\ from[n + 1] = to[n + 1])

\* The segments of path.relative(from, to): one ".." for each segment of from
\* below the common ancestor, then the segments of to below it.
relativeSegments(from, to) ==
    LET common == CommonLength(from.segments, to.segments) IN
        [i \in 1..(Len(from.segments) - common) |-> Parent]
            \o SubSeq(to.segments, common + 1, Len(to.segments))

RECURSIVE joinSegments(_, _)
joinSegments(segments, sep) ==
    IF segments = <<>> THEN <<>>
    ELSE IF Len(segments) = 1 THEN segments[1]
    ELSE segments[1] \o <<sep>> \o joinSegments(Tail(segments), sep)

\* path.relative(from, to)
relative(from, to) == joinSegments(relativeSegments(from, to), to.sep)

\* /(?<![^/\\])\.(?!\.)/u.test(string): a "." that no character other than a
\* separator precedes and that no "." follows.
isHiddenRegExp(string) ==
    \E i \in DOMAIN string :
        /\ string[i] = Dot
        /\ i = 1 \/ string[i - 1] \in Separators
        /\ ~(i < Len(string) /\ string[i + 1] = Dot)

\* /(?<![^/\\])node_modules[/\\]/u.test(string): "node_modules" that no
\* character other than a separator precedes and that a separator follows.
isInNodeModulesRegExp(string) ==
    \E i \in DOMAIN string :
        /\ string[i] = "node_modules"
        /\ i = 1 \/ string[i - 1] \in Separators
        /\ i < Len(string) /\ string[i + 1] \in Separators

HiddenMessage ==
    "File ignored by default. Use a negated ignore pattern (like \"!<relative/path/to/filename>\") to override."

NodeModulesMessage ==
    "File ignored by default. Use a negated ignore pattern like \"!node_modules/*\" to override."

PatternMessage ==
    "File ignored because of a matching ignore pattern. Set \"ignore\" option to false to override."

createIgnoreResult(filePath, baseDir) ==
    LET relativePath == relative(baseDir, filePath)
        message      == IF isHiddenRegExp(relativePath) THEN HiddenMessage
                        ELSE IF isInNodeModulesRegExp(relativePath) THEN NodeModulesMessage
                        ELSE PatternMessage
    IN  [filePath            |-> filePath,
         messages            |-> <<[fatal |-> FALSE, severity |-> 1, message |-> message]>>,
         errorCount          |-> 0,
         warningCount        |-> 1,
         fixableErrorCount   |-> 0,
         fixableWarningCount |-> 0,
         fatalErrorCount     |-> 0]

\* The names of files and directories.
SegmentNames ==
    { <<"src">>, <<"pkg">>, <<"node_modules">>, <<"a", Dot, "js">>,
      <<Dot, "bin">>, <<Dot, "a", Dot, "b">>, <<Dot, Dot, "foo">> }

FilePaths == UNION { [1..n -> SegmentNames] : n \in 1..MaxDepth }

BaseDirs == { <<>>, << <<"src">> >>, << <<"pkg">> >>, << <<"src">>, <<"pkg">> >>,
              << <<"src">>, <<"src">> >> }

IgnoreInit ==
    /\ \E sep \in Separators : \E file \in FilePaths : \E base \in BaseDirs :
          ignoreArgs = [filePath |-> [sep |-> sep, segments |-> file],
                        baseDir  |-> [sep |-> sep, segments |-> base]]
    /\ ignoreResult = [called |-> FALSE]
    /\ StreamIdle
    /\ FilterIdle
    /\ MigrateIdle
    /\ FormatIdle

\* The one call of createIgnoreResult.
CreateIgnoreResult ==
    /\ ~ignoreResult.called
    /\ ignoreResult' = [called |-> TRUE,
                        value  |-> createIgnoreResult(ignoreArgs.filePath, ignoreArgs.baseDir)]
    /\ UNCHANGED ignoreArgs
    /\ UNCHANGED <<streamVars, filterVars, migrateVars, formatVars>>

IgnoreNext == CreateIgnoreResult

SpecIgnore == IgnoreInit /\ [][IgnoreNext]_vars

-----------------------------------------------------------------------------
(* Properties of createIgnoreResult.                                       *)

\* The segments of the path of the file relative to the base directory.
RelativeToBase == relativeSegments(ignoreArgs.baseDir, ignoreArgs.filePath)

IgnoreMessage == ignoreResult.value.messages[1].message

\* A segment that starts with "." and is not "..".
HiddenSegment(segment) == segment # <<>> /\ segment[1] = Dot /\ segment # Parent

HasHiddenSegment == \E i \in DOMAIN RelativeToBase : HiddenSegment(RelativeToBase[i])

\* A node_modules directory on the way to the file.
HasNodeModulesSegment ==
    \E i \in DOMAIN RelativeToBase :
        i < Len(RelativeToBase) /\ RelativeToBase[i] = <<"node_modules">>

\* C14: createIgnoreResult gives the hidden-path reason if and only if some
\* segment of the path relative to baseDir starts with "." and is not exactly
\* ".." (".hidden", ".a.b" and "..foo" are hidden, ".." is not).
C14_Original ==
    ignoreResult.called => (IgnoreMessage = HiddenMessage <=> HasHiddenSegment)

\* C15: createIgnoreResult gives exactly one of three reasons, the first that
\* applies: the hidden-path reason when the relative path has a hidden segment,
\* else the node_modules reason when it has a node_modules directory segment,
\* else the reason of a matching ignore pattern.
C15_Original ==
    ignoreResult.called =>
        IgnoreMessage = IF HasHiddenSegment THEN HiddenMessage
                        ELSE IF HasNodeModulesSegment THEN NodeModulesMessage
                        ELSE PatternMessage

-----------------------------------------------------------------------------
(* resolveFormatter and writeResults.                                      *)
(*                                                                         *)
(* A result is told by its filePath, a number standing for the place of    *)
(* the path in the order of strings, and by the place it had in the list   *)
(* handed over.  trace is the history of the current writeResults call.    *)

compareResultsByFilePath(result1, result2) ==
    IF result1.filePath > result2.filePath THEN 1
    ELSE IF result1.filePath < result2.filePath THEN -1
    ELSE 0

\* results.sort(compareResultsByFilePath): the stable sort of Array.prototype.sort.
RECURSIVE sort(_)
sort(list) ==
    IF Len(list) <= 1 THEN list
    ELSE LET front == sort(SubSeq(list, 1, Len(list) - 1))
             last  == list[Len(list)]
             k     == Cardinality({i \in DOMAIN front :
                                      compareResultsByFilePath(front[i], last) <= 0})
         IN  SubSeq(front, 1, k) \o <<last>> \o SubSeq(front, k + 1, Len(front))

\* resolveFormatter(eslintInfo, formatter): an object with a format method is
\* returned as it is, a function is wrapped, anything else is left to
\* eslint.loadFormatter.
resolveFormatter(formatter) ==
    CASE formatter = "object"   -> [format |-> "own"]
      [] formatter = "function" -> [format |-> "wrapper"]
      [] OTHER                  -> [format |-> "loaded"]

\* The list the formatter gets from formatterObj.format(results): the wrapper
\* sorts it in place first.
format(formatterObj, list) ==
    IF formatterObj.format = "wrapper" THEN sort(list) ELSE list

\* The getter of context.rulesMeta without the defineProperty that caches.
rulesMetaUncached(context, outcome) ==
    IF outcome = "returns"
    THEN [context |-> [cached |-> FALSE, value |-> context.calls + 1,
                       calls |-> context.calls + 1],
          called |-> TRUE, threw |-> FALSE, value |-> context.calls + 1]
    ELSE [context |-> [context EXCEPT !.calls = @ + 1],
          called |-> TRUE, threw |-> TRUE, value |-> 0]

\* One read of context.rulesMeta.  While the property is the getter of the
\* object literal, the read calls eslint.getRulesMetaForResults(results), which
\* returns a new object or throws; after a return the property is redefined as
\* that value.  The n-th call of the engine returns object n.
rulesMetaGetter(context, outcome) ==
    IF context.cached
    THEN [context |-> context, called |-> FALSE, threw |-> FALSE, value |-> context.value]
    ELSE IF outcome = "returns"
    THEN [context |-> [cached |-> TRUE, value |-> context.calls + 1,
                       calls |-> context.calls + 1],
          called |-> TRUE, threw |-> FALSE, value |-> context.calls + 1]
    ELSE [context |-> [context EXCEPT !.calls = @ + 1],
          called |-> TRUE, threw |-> TRUE, value |-> 0]

Promise == [t |-> "promise"]

Rejection == [t |-> "rejection"]

\* What a formatter may produce as its output.
FormatterOutputs == {Str("report"), Str(""), Null, Undefined}

\* await formatterObj.format(results): the value itself, or what the promise
\* settles with.
awaited(returned) ==
    IF returned = Promise THEN FormatterOutputs \cup {Rejection} ELSE {returned}

\* The writer called whenever there is an output, the empty string included.
shouldWriteNonNull(writer, message) ==
    writer /\ message # Null /\ message # Undefined

\* writer && message != null && message !== ''
shouldWrite(writer, message) ==
    writer /\ message # Null /\ message # Undefined /\ message # Str("")

ResultLists ==
    UNION { { list \in [1..n -> [filePath : 1..2, id : 1..n]] :
                \A i \in 1..n : list[i].id = i } : n \in 0..MaxResults }

\* A second list, for a second call with the same formatter.
OtherList == <<[filePath |-> 2, id |-> 1], [filePath |-> 1, id |-> 2]>>

FormatInit ==
    /\ formatterRef \in {"function", "object", "name"}
    /\ writerRef \in BOOLEAN
    /\ \E list \in ResultLists : toFormat \in {<<list>>, <<list, OtherList>>}
    /\ calling = "idle"
    /\ current = <<>>
    /\ rulesMeta = NoContext
    /\ output = Undefined
    /\ trace = <<>>
    /\ StreamIdle
    /\ FilterIdle
    /\ MigrateIdle
    /\ IgnoreIdle

CountEv(e) == Cardinality({k \in DOMAIN trace : trace[k].ev = e})

\* writeResults(results, formatterObj, writer) is called: it calls
\* formatterObj.format(results), which for a wrapped function sorts the list and
\* calls the function with the list and a new context.
CallWriteResults ==
    /\ calling = "idle"
    /\ toFormat # <<>>
    /\ LET list         == Head(toFormat)
           formatterObj == resolveFormatter(formatterRef)
       IN  /\ toFormat' = Tail(toFormat)
           /\ current' = format(formatterObj, list)
           /\ trace' = <<[ev |-> "format", given |-> list,
                          results |-> format(formatterObj, list),
                          context |-> formatterObj.format = "wrapper"]>>
    /\ rulesMeta' = NoContext
    /\ output' = Undefined
    /\ calling' = "format"
    /\ UNCHANGED <<formatterRef, writerRef>>
    /\ UNCHANGED <<streamVars, filterVars, migrateVars, ignoreVars>>

\* The formatter function reads context.rulesMeta; when the engine throws, the
\* function either handles the error and goes on or lets it end format.
ReadRulesMeta ==
    /\ calling = "format"
    /\ resolveFormatter(formatterRef).format = "wrapper"
    /\ CountEv("read") + CountEv("readThrew") < MaxReads
    /\ \E outcome \in {"returns", "throws"} : \E handled \in BOOLEAN :
        LET got == rulesMetaGetter(rulesMeta, outcome) IN
            /\ ~got.called => outcome = "returns"
            /\ ~got.threw => handled
            /\ rulesMeta' = got.context
            /\ trace' = trace
                 \o (IF got.called
                     THEN <<[ev |-> "getRulesMetaForResults", results |-> current]>>
                     ELSE <<>>)
                 \o (IF got.threw THEN <<[ev |-> "readThrew"]>>
                     ELSE <<[ev |-> "read", value |-> got.value]>>)
                 \o (IF handled THEN <<>> ELSE <<[ev |-> "formatFailed"], [ev |-> "rejected"]>>)
            /\ calling' = IF handled THEN "format" ELSE "idle"
    /\ UNCHANGED <<formatterRef, writerRef, toFormat, current, output>>
    /\ UNCHANGED <<streamVars, filterVars, migrateVars, ignoreVars>>

\* The formatter returns its output or a promise of it, or throws.
FormatReturn ==
    /\ calling = "format"
    /\ \/ \E returned \in FormatterOutputs \cup {Promise} :
            /\ output' = returned
            /\ trace' = Append(trace, [ev |-> "returned", value |-> returned])
            /\ calling' = "await"
       \/ /\ trace' = trace \o <<[ev |-> "formatFailed"], [ev |-> "rejected"]>>
          /\ calling' = "idle"
          /\ UNCHANGED output
    /\ UNCHANGED <<formatterRef, writerRef, toFormat, current, rulesMeta>>
    /\ UNCHANGED <<streamVars, filterVars, migrateVars, ignoreVars>>

\* writeResults resumes after its await with the message, and calls the writer
\* or returns.
FormatSettle ==
    /\ calling = "await"
    /\ \E message \in awaited(output) :
        IF message = Rejection
        THEN /\ trace' = trace \o <<[ev |-> "formatFailed"], [ev |-> "rejected"]>>
             /\ calling' = "idle"
             /\ UNCHANGED output
        ELSE /\ output' = message
             /\ IF shouldWrite(writerRef, message)
                THEN /\ trace' = trace \o <<[ev |-> "formatted", output |-> message],
                                            [ev |-> "write", message |-> message]>>
                     /\ calling' = "write"
                ELSE /\ trace' = trace \o <<[ev |-> "formatted", output |-> message],
                                            [ev |-> "resolved"]>>
                     /\ calling' = "idle"
    /\ UNCHANGED <<formatterRef, writerRef, toFormat, current, rulesMeta>>
    /\ UNCHANGED <<streamVars, filterVars, migrateVars, ignoreVars>>

\* The writer returns or fails, and writeResults with it.
WriterSettle ==
    /\ calling = "write"
    /\ \E ok \in BOOLEAN :
          trace' = trace \o (IF ok THEN <<[ev |-> "written"], [ev |-> "resolved"]>>
                             ELSE <<[ev |-> "writeFailed"], [ev |-> "rejected"]>>)
    /\ calling' = "idle"
    /\ UNCHANGED <<formatterRef, writerRef, toFormat, current, rulesMeta, output>>
    /\ UNCHANGED <<streamVars, filterVars, migrateVars, ignoreVars>>

FormatNext ==
    \/ CallWriteResults
    \/ ReadRulesMeta
    \/ FormatReturn
    \/ FormatSettle
    \/ WriterSettle

SpecFormat == FormatInit /\ [][FormatNext]_vars

-----------------------------------------------------------------------------
(* Properties of resolveFormatter and writeResults.                        *)

\* out holds the results of list, each once, in the order of their filePath.
SortedByFilePath(out, list) ==
    /\ Len(out) = Len(list)
    /\ {out[i] : i \in DOMAIN out} = {list[i] : i \in DOMAIN list}
    /\ \A i, j \in DOMAIN out : i < j => out[i].filePath <= out[j].filePath

Places(e) == {k \in DOMAIN trace : trace[k].ev = e}

\* The formatter function was called with the sorted list and a context.
SortedThenCalled ==
    /\ trace[1].ev = "format"
    /\ trace[1].context
    /\ SortedByFilePath(trace[1].results, trace[1].given)
    /\ current = trace[1].results

SameValueRead == \A j, k \in Places("read") : trace[j].value = trace[k].value

\* C16 (as stated): a call of the format of a wrapped function sorts the results
\* by filePath and then calls the function with them and a context; the engine's
\* getRulesMetaForResults is called zero times when context.rulesMeta is never
\* read and at most once in a format call however often it is read, every read
\* returning the same value.
C16_Original ==
    formatterRef = "function" /\ trace # <<>> =>
        /\ SortedThenCalled
        /\ Places("read") \cup Places("readThrew") = {} =>
              Places("getRulesMetaForResults") = {}
        /\ CountEv("getRulesMetaForResults") <= 1
        /\ SameValueRead

\* C16 (amended): a call of the format of a wrapped function sorts the results
\* by filePath and then calls the function with them and a context; the engine's
\* getRulesMetaForResults is called zero times when context.rulesMeta is never
\* read; a read calls it, with the sorted results, only while no earlier read of
\* that format call has succeeded: the first read that succeeds caches the value
\* and every later read returns that same value without a call, while a read on
\* which the engine throws caches nothing, so the next read calls it again.
C16_LazyRulesMeta ==
    formatterRef = "function" /\ trace # <<>> =>
        /\ SortedThenCalled
        /\ Places("read") \cup Places("readThrew") = {} =>
              Places("getRulesMetaForResults") = {}
        /\ CountEv("getRulesMetaForResults") =
              CountEv("readThrew") + (IF Places("read") # {} THEN 1 ELSE 0)
        /\ \A k \in Places("read") : \A j \in DOMAIN trace :
              j > k => trace[j].ev \notin {"getRulesMetaForResults", "readThrew"}
        /\ \A k \in Places("getRulesMetaForResults") : trace[k].results = trace[1].results
        /\ SameValueRead

\* C16 witness: a list given out of order was sorted, and context.rulesMeta was
\* read twice on one call of the engine.
C16_Witness ==
    /\ formatterRef = "function"
    /\ trace # <<>>
    /\ trace[1].ev = "format"
    /\ trace[1].given # trace[1].results
    /\ CountEv("read") = 2
    /\ CountEv("getRulesMetaForResults") = 1

NonEmpty(message) == message \notin {Str(""), Null, Undefined}

CallOver == trace # <<>> /\ trace[Len(trace)].ev \in {"resolved", "rejected"}

\* C17: a call of writeResults calls the formatter exactly once; it calls the
\* writer at most once, only after the formatter's output is available, possibly
\* from a promise, and only with that output, which is then not empty (not the
\* empty string, null or undefined); when the output is not empty the writer
\* given is called exactly once.
C17_FormatThenWrite ==
    trace # <<>> =>
        /\ trace[1].ev = "format"
        /\ CountEv("format") = 1
        /\ CountEv("write") <= 1
        /\ CountEv("formatted") <= 1
        /\ \A k \in Places("write") :
              /\ writerRef
              /\ NonEmpty(trace[k].message)
              /\ trace[k].message \in FormatterOutputs
              /\ \E j \in Places("formatted") :
                    j < k /\ trace[j].output = trace[k].message
        /\ \A j \in Places("formatted") :
              /\ ~NonEmpty(trace[j].output) => Places("write") = {}
              /\ NonEmpty(trace[j].output) /\ writerRef =>
                    \E k \in Places("write") : k = j + 1
        /\ CallOver /\ Places("formatted") = {} => Places("write") = {}

\* C17 witness: the formatter returned a promise, the promise gave "report",
\* and the writer was then called with it and returned.
C17_Witness ==
    /\ CallOver
    /\ \E k \in Places("returned") : trace[k].value = Promise
    /\ \E k \in Places("write") : trace[k].message = Str("report")
    /\ Places("written") # {}

LegacyNames ==
    {"configFile", "envs", "extends", "globals", "ignorePattern", "parser",
     "parserOptions", "plugins", "rules"}

\* The plugin's own options, taken out of the options by name.
PluginOptions == {"[ESLintKey]", "quiet", "warnFileIgnored", "warnIgnored"}

Succeeded == migrated.status = "returned" /\ options.t = "object"

EngineOptions == Get(ReturnedProps, "eslintOptions").props

SuppliedConfig ==
    IF Get(Given, "overrideConfig").t = "object"
    THEN Get(Given, "overrideConfig").props ELSE <<>>

\* A legacy option that is migrated: plugins is one only as an array.
IsLegacy(k) ==
    /\ k \in LegacyNames
    /\ k = "plugins" => Get(Given, "plugins").t = "array"

\* The field of overrideConfig a legacy option is migrated to, and its value.
FieldOf(k) ==
    CASE k = "envs"          -> "env"
      [] k = "ignorePattern" -> "ignorePatterns"
      [] OTHER               -> k

Converted(k, value) ==
    CASE k = "envs"    -> toBooleanMap(value, TRUE, "envs").value
      [] k = "globals" -> toBooleanMap(value, FALSE, "globals").value
      [] OTHER         -> value

\* C21: migrateOptions never modifies the objects it is given. After any call,
\* whether it returned or threw, the caller's options object has its original
\* keys and values, and the caller's overrideConfig object has no key added or
\* changed.
C21_InputObjectsKept ==
    migrated.status # "idle" =>
        /\ caller.options = options
        /\ caller.overrideConfig = Get(Given, "overrideConfig")

\* C21 (witness): a call that returned, given a legacy option that was taken
\* out of the engine options and written into the migrated overrideConfig, with
\* the caller's options and overrideConfig objects as they were handed over.
C21_Witness ==
    /\ Succeeded
    /\ Get(Given, "overrideConfig").t = "object"
    /\ \E k \in LegacyNames :
           /\ IsLegacy(k)
           /\ Get(Given, k) # Undefined
           /\ ~hasOwn(EngineOptions, k)
           /\ hasOwn(caller.options.props, k)
    /\ MigratedConfig # SuppliedConfig
    /\ caller.options = options
    /\ caller.overrideConfig = Get(Given, "overrideConfig")

NoLegacyLeft ==
    \A k \in LegacyNames :
        hasOwn(EngineOptions, k) =>
            k = "plugins" /\ hasOwn(Given, "plugins") /\ Get(Given, "plugins").t # "array"

LegacyOverrides ==
    \A k \in LegacyNames \ {"configFile"} :
        IsLegacy(k) /\ Get(Given, k) # Undefined =>
            /\ hasOwn(MigratedConfig, FieldOf(k))
            /\ Get(MigratedConfig, FieldOf(k)) = Converted(k, Get(Given, k))

ConfigFileOverrides ==
    Get(Given, "configFile") # Undefined =>
        Get(EngineOptions, "overrideConfigFile") = Get(Given, "configFile")

\* The keys the call neither migrates nor writes: not a legacy option, not
\* overrideConfig, and not overrideConfigFile when configFile replaces it.
OtherKeys ==
    { Given[i].key : i \in DOMAIN Given } \
        ({ k \in LegacyNames : IsLegacy(k) } \cup {"overrideConfig"}
         \cup (IF Get(Given, "configFile") # Undefined THEN {"overrideConfigFile"} ELSE {}))

PassedThrough(keys) ==
    \A k \in keys : hasOwn(EngineOptions, k) /\ Get(EngineOptions, k) = Get(Given, k)

\* C22 (as stated): after a successful call on an object the engine options
\* hold no legacy key (plugins only when it was not an array), each legacy key
\* given with a defined value overrides its field of the supplied
\* overrideConfig, configFile overrides overrideConfigFile, and every other
\* key given is in the engine options with the value given.
C22_Original ==
    Succeeded =>
        /\ NoLegacyLeft
        /\ LegacyOverrides
        /\ ConfigFileOverrides
        /\ PassedThrough(OtherKeys)

\* C22: after a successful call on an object the engine options hold no legacy
\* key (plugins only when it was not an array); each legacy key given with a
\* defined value overrides, in a copy of the supplied overrideConfig, the field
\* it is migrated to, the other fields being kept; configFile overrides
\* overrideConfigFile; the plugin's own options quiet, warnIgnored,
\* warnFileIgnored and the ESLint key are taken out of the engine options; and
\* every other key given is in the engine options with the value given.
C22_LegacyMigrated ==
    Succeeded =>
        /\ NoLegacyLeft
        /\ LegacyOverrides
        /\ ConfigFileOverrides
        /\ \A k \in PluginOptions : ~hasOwn(EngineOptions, k)
        /\ PassedThrough(OtherKeys \ PluginOptions)
        /\ \A i \in DOMAIN SuppliedConfig :
               LET field == SuppliedConfig[i].key
               IN  (\A k \in LegacyNames \ {"configFile"} :
                        IsLegacy(k) /\ Get(Given, k) # Undefined => FieldOf(k) # field)
                   => Get(MigratedConfig, field) = SuppliedConfig[i].value

\* C22 (witness): a call that returned, given a legacy option whose field the
\* supplied overrideConfig already had with another value, and now has with the
\* value of the legacy option, the legacy option being gone from the engine
\* options.
C22_Witness ==
    /\ Succeeded
    /\ \E k \in LegacyNames \ {"configFile"} :
           /\ IsLegacy(k)
           /\ Get(Given, k) # Undefined
           /\ hasOwn(SuppliedConfig, FieldOf(k))
           /\ Get(SuppliedConfig, FieldOf(k)) # Converted(k, Get(Given, k))
           /\ Get(MigratedConfig, FieldOf(k)) = Converted(k, Get(Given, k))
           /\ ~hasOwn(EngineOptions, k)

====
